---- MODULE Spec2Model ----
(***************************************************************************)
(* Fish feeder firmware (ESP32): the cooperative tasks of main.cpp, the    *)
(* feeding arbiter (startFeeding / cancelFeeding), the status derivation   *)
(* (updateLEDStatus), the stepper actuator and the feeding schedule        *)
(* engine (FeedingSchedule).                                               *)
(*                                                                         *)
(* A DateTime is a record [day, sod]: whole days since 2000-01-01 and the  *)
(* second of that day.  millis() is the variable millis.                   *)
(***************************************************************************)
EXTENDS Integers, Sequences, FiniteSets, TLC

\* ------------------------------------------------------------------------
\* Program constants
\* ------------------------------------------------------------------------
MIN_FOOD_PORTIONS == 1
MAX_FOOD_PORTIONS == 20
STEPS_PER_REVOLUTION == 2048
FOOD_PORTION_ROTATION == 1
CANCEL_FLASH_DURATION == 300
FEEDING_SCHEDULE_TOLERANCE_MINUTES == 30
FEEDING_SCHEDULE_MAX_RECOVERY_HOURS == 12
SECONDS_PER_DAY == 86400
UINT8_MOD == 256
UINT16_MOD == 65536
\* what getUChar("sched_count", 255) gives when the key is absent
NO_SCHED_COUNT == 255
\* characters of a description kept by strncpy(..., 49)
DESCRIPTION_MAX == 49
MAX_SCHEDULED_FEEDINGS == 10
\* the largest portions value addSchedule and editSchedule let through
SCHEDULE_MAX_PORTIONS == 10
\* the largest values the TOLERANCE and RECOVERY requests let through
MAX_TOLERANCE_MINUTES == 120
MAX_RECOVERY_HOURS == 72

\* first day of the year 2099, counted from 2000-01-01
DAY_2099_01_01 == 36160
\* 2099-12-31
DAY_2099_12_31 == 36524

\* ------------------------------------------------------------------------
\* Bounds of the model
\* ------------------------------------------------------------------------
\* steps the stepper advances between two observations of the motor task
StepsPerRun == 4096
\* no further move is requested once the target lies past this position
MaxTarget == 4096
\* number of clock advances in a run
MaxAdvances == 2
\* day the device boots on (days since 2000-01-01)
BootDay == 9000
\* number of configuration requests in a run
MaxEdits == 2
\* number of changes of the network and NTP commands in a run
MaxEvents == 3
\* number of sync cycles the time servers answer in a run
MaxAnswers == 1

\* numbers typed after the FEED command
FeedInputs == {2, 21, 256}
\* values of the portions parameter of /api/feed
WebPortionInputs == {0, 2, 21}
\* what the touch sensor's long press feeds (DEFAULT_TOUCH_LONG_PRESS_PORTIONS)
touchLongPressPortions == 2
\* milliseconds that may pass between two task invocations
Jumps == {150, 30000}

\* ------------------------------------------------------------------------
\* DateTime (RTClib)
\* ------------------------------------------------------------------------
DT(d, s) == [day |-> d, sod |-> s]

HMS(h, m, s) == h * 3600 + m * 60 + s

\* DateTime() : the default constructor is 2000-01-01 00:00:00
DateTimeDefault == DT(0, 0)

\* DateTime(2099, 12, 31, 23, 59, 59)
FarFuture == DT(DAY_2099_12_31, HMS(23, 59, 59))

DtLess(a, b) == a.day < b.day \/ (a.day = b.day /\ a.sod < b.sod)

DtLeq(a, b) == a = b \/ DtLess(a, b)

\* a.unixtime() - b.unixtime(), as a signed number of seconds
DtDiff(a, b) == (a.day - b.day) * SECONDS_PER_DAY + (a.sod - b.sod)

\* DateTime(a.unixtime() + n), n may be negative
DtAddSecs(a, n) ==
    LET t == a.sod + n
        dd == IF t >= 0 THEN t \div SECONDS_PER_DAY
              ELSE -((SECONDS_PER_DAY - 1 - t) \div SECONDS_PER_DAY)
    IN DT(a.day + dd, t - dd * SECONDS_PER_DAY)

DtYearIs2099(a) == a.day >= DAY_2099_01_01 /\ a.day <= DAY_2099_12_31

\* ------------------------------------------------------------------------
\* Configuration helpers (config.cpp)
\* ------------------------------------------------------------------------
clampPortions(p) ==
    IF p < MIN_FOOD_PORTIONS THEN MIN_FOOD_PORTIONS
    ELSE IF p > MAX_FOOD_PORTIONS THEN MAX_FOOD_PORTIONS
    ELSE p

portionsToSteps(p) == clampPortions(p) * FOOD_PORTION_ROTATION * STEPS_PER_REVOLUTION

isValidPortionCount(p) == p >= MIN_FOOD_PORTIONS /\ p <= MAX_FOOD_PORTIONS

\* a character string: the first len characters of text
Text(text, len) == [text |-> text, len |-> len]

\* the empty string
EmptyText == Text("", 0)

\* strncpy(dst, src, 49); dst[49] = 0: at most DESCRIPTION_MAX characters
\* of the string are kept
copyDescription(desc) ==
    [desc EXCEPT !.len = IF @ > DESCRIPTION_MAX THEN DESCRIPTION_MAX ELSE @]

\* the compiled-in table
DEFAULT_FEEDING_SCHEDULE ==
    << [hour |-> 8,  minute |-> 0, second |-> 0, portions |-> 2, enabled |-> TRUE,
        description |-> Text("Morning feeding", 15)],
       [hour |-> 12, minute |-> 0, second |-> 0, portions |-> 1, enabled |-> TRUE,
        description |-> Text("Midday feeding", 14)],
       [hour |-> 18, minute |-> 0, second |-> 0, portions |-> 2, enabled |-> TRUE,
        description |-> Text("Evening feeding", 15)] >>

DEFAULT_SCHEDULE_COUNT == Len(DEFAULT_FEEDING_SCHEDULE)

\* ------------------------------------------------------------------------
\* State
\* ------------------------------------------------------------------------
VARIABLES
    millis,                 \* millis(): uptime in ms
    advances,               \* number of clock advances so far
    rtc,                    \* the DateTime the RTC reads
    stepperPos,             \* AccelStepper currentPosition
    stepperTarget,          \* AccelStepper targetPosition
    motorInitialized,       \* StepperMotor::isInitialized (and stepper != nullptr)
    fcInitialized,          \* FeedingController::isInitialized
    feedingInProgress,      \* ModuleManager::feedingInProgress (the shared flag)
    tFeedingMonitorEnabled, \* tFeedingMonitor is enabled
    tMotorMaintenanceEnabled, \* tMotorMaintenance is enabled
    wasFeeding,             \* static of feedingMonitorTask
    currentLEDState,
    ledStateChangeTime,
    schedules,              \* scheduleStorage[0 .. scheduleCount-1]
    scheduleEnabled,
    schedFeedingInProgress, \* FeedingSchedule::feedingInProgress (private)
    lastCompletedFeeding,
    nvLastFeeding,          \* the "last_feeding" key of the store, or NoValue
    persistenceInitialized,
    nextScheduledTime,
    nextScheduleIndex,
    toleranceMinutes,
    maxRecoveryHours,
    nvSchedules,            \* the store: count is "sched_count", recs[i+1] the "s<i>_" keys
    edits,                  \* number of configuration requests so far
    dispatched,             \* the occurrences [index, time] executeFeeding was called for
    pulseStarts,            \* millis() of the successful cancels whose 300 ms have not been seen to end
    ntp,                    \* the NTPSync object and the network stack's settings it writes, see NTPSyncObject
    wifi,                   \* connected: isWiFiConnected(); wasConnected: static of wifiMonitorTask
    events,                 \* number of changes of the network and NTP commands so far
    due,                    \* the tasks among tWiFiMonitor and tNTPSync that have not run in the current period
    tried,                  \* the indices of TIME_SERVERS the current or latest sync cycle has tried, in order
    http,                   \* the HTTP time source asked and its answer, see HttpInputs
    avr,                    \* the AVR prototype (feed-schedule.c), see AvrSetup
    last                    \* the result of the latest operation, see Done

vars == << millis, advances, rtc, stepperPos, stepperTarget, motorInitialized,
           fcInitialized, feedingInProgress, tFeedingMonitorEnabled,
           tMotorMaintenanceEnabled, wasFeeding, currentLEDState,
           ledStateChangeTime, schedules, scheduleEnabled, schedFeedingInProgress,
           lastCompletedFeeding, nvLastFeeding, persistenceInitialized,
           nextScheduledTime, nextScheduleIndex, toleranceMinutes,
           maxRecoveryHours, nvSchedules, edits, dispatched, pulseStarts,
           ntp, wifi, events, due, tried, http, avr, last >>

\* the answer of an HTTP time source under study and the AVR prototype
benchVars == << http, avr >>

ntpVars == << ntp, wifi, events, due, tried, benchVars >>

motorVars == << stepperPos, stepperTarget, motorInitialized, fcInitialized >>

ledVars == << currentLEDState, ledStateChangeTime, pulseStarts >>

clockVars == << millis, advances, rtc >>

tableVars == << schedules, scheduleEnabled, persistenceInitialized,
                toleranceMinutes, maxRecoveryHours, nvSchedules, edits >>

schedVars == << schedules, scheduleEnabled, schedFeedingInProgress,
                lastCompletedFeeding, nvLastFeeding, persistenceInitialized,
                nextScheduledTime, nextScheduleIndex, toleranceMinutes,
                maxRecoveryHours, nvSchedules, edits, dispatched >>

\* the key is absent from the store (getUInt then returns its default 0)
NoValue == DT(-1, 0)

\* last names the latest call of startFeeding or cancelFeeding with its return
\* value ("true" / "false"), the latest scheduleMonitorTask that dispatched
\* (n feedings, ret the path that did), the latest feedingMonitorTask that saw the feeding complete
\* (n = 1), or the latest rgbLedMaintenanceTask that wrote the indicator
\* (applied) or found a cancel flash (n = 1)
Done(op, ret, applied, n) == [op |-> op, ret |-> ret, applied |-> applied, n |-> n]

\* what last holds after any other step
Quiet == Done("quiet", "void", FALSE, 0)

\* ------------------------------------------------------------------------
\* Stepper motor (stepper_motor.cpp over AccelStepper)
\* ------------------------------------------------------------------------
distanceToGo == IF motorInitialized THEN stepperTarget - stepperPos ELSE 0

\* StepperMotor::isRunning
isRunning == motorInitialized /\ stepperTarget # stepperPos

\* StepperMotor::isReady
motorIsReady == motorInitialized

\* FeedingController::isReady
fcIsReady == fcInitialized /\ motorIsReady

\* StepperMotor::moveToPositionAsync: the new target, unchanged when not initialized
moveToPositionAsync(target) == IF motorInitialized THEN target ELSE stepperTarget

\* StepperMotor::getCurrentPosition
getCurrentPosition == IF motorInitialized THEN stepperPos ELSE 0

\* FeedingController::dispenseFoodAsync: [ok, target]
dispenseFoodAsync(portions) ==
    IF ~fcInitialized THEN [ok |-> FALSE, target |-> stepperTarget]
    ELSE IF ~isValidPortionCount(portions) THEN [ok |-> FALSE, target |-> stepperTarget]
    ELSE [ok |-> TRUE,
          target |-> moveToPositionAsync(getCurrentPosition + portionsToSteps(portions))]

\* StepperMotor::stop: disableMotor() only sets the four coil pins LOW;
\* the AccelStepper target is left as it is
stopTarget == stepperTarget

\* one observation of StepperMotor::run: the position after the steps taken
runPosition ==
    IF ~motorInitialized \/ stepperTarget = stepperPos THEN stepperPos
    ELSE IF stepperTarget - stepperPos > StepsPerRun THEN stepperPos + StepsPerRun
    ELSE stepperTarget

\* ------------------------------------------------------------------------
\* Feeding schedule engine (feeding_schedule.cpp); indexes are 0-based as in
\* the code, entry i of the table is schedules[i + 1]
\* ------------------------------------------------------------------------
scheduleCount == Len(schedules)

\* FeedingSchedule::getScheduleDateTime
getScheduleDateTime(s, referenceDate) ==
    DT(referenceDate.day, HMS(s.hour, s.minute, s.second))

\* first loop of calculateNextFeeding, entries i .. n-1, best so far in acc
RECURSIVE ScanToday(_, _, _, _)
ScanToday(tbl, now, i, acc) ==
    IF i >= Len(tbl) THEN acc
    ELSE LET t == getScheduleDateTime(tbl[i + 1], DT(now.day, 0))
         IN IF tbl[i + 1].enabled /\ DtLess(now, t) /\ DtLess(t, acc.time)
            THEN ScanToday(tbl, now, i + 1, [time |-> t, index |-> i])
            ELSE ScanToday(tbl, now, i + 1, acc)

\* second loop of calculateNextFeeding
RECURSIVE ScanTomorrow(_, _, _, _)
ScanTomorrow(tbl, now, i, acc) ==
    IF i >= Len(tbl) THEN acc
    ELSE LET t == getScheduleDateTime(tbl[i + 1], DT(now.day + 1, 0))
         IN IF tbl[i + 1].enabled /\ DtLess(t, acc.time)
            THEN ScanTomorrow(tbl, now, i + 1, [time |-> t, index |-> i])
            ELSE ScanTomorrow(tbl, now, i + 1, acc)

\* FeedingSchedule::calculateNextFeeding: [time, index]
calculateNextFeeding(tbl, now) ==
    IF Len(tbl) = 0 THEN [time |-> FarFuture, index |-> 0]
    ELSE LET today == ScanToday(tbl, now, 0, [time |-> FarFuture, index |-> 0])
         IN IF DtYearIs2099(today.time)
            THEN ScanTomorrow(tbl, now, 0, today)
            ELSE today

\* loop of updateNextScheduledTime
RECURSIVE ScanCandidates(_, _, _, _)
ScanCandidates(tbl, currentTime, i, nextFeeding) ==
    IF i >= Len(tbl) THEN nextFeeding
    ELSE LET today == getScheduleDateTime(tbl[i + 1], currentTime)
             candidateTime == IF DtLeq(today, currentTime)
                              THEN DtAddSecs(today, SECONDS_PER_DAY)
                              ELSE today
         IN IF tbl[i + 1].enabled /\ DtLess(candidateTime, nextFeeding)
            THEN ScanCandidates(tbl, currentTime, i + 1, candidateTime)
            ELSE ScanCandidates(tbl, currentTime, i + 1, nextFeeding)

\* FeedingSchedule::updateNextScheduledTime: the new nextScheduledTime
updateNextScheduledTime(tbl, currentTime) ==
    LET nextFeeding == ScanCandidates(tbl, currentTime, 0, DT(DAY_2099_01_01, 0))
    IN IF nextFeeding.day >= DAY_2099_01_01 THEN DT(0, 0) ELSE nextFeeding

\* FeedingSchedule::isTimeForFeeding
isTimeForFeeding(currentTime, s) ==
    /\ s.enabled
    /\ LET timeDiff == DtDiff(currentTime, getScheduleDateTime(s, DT(currentTime.day, 0)))
           absDiff == IF timeDiff < 0 THEN -timeDiff ELSE timeDiff
       IN absDiff <= 60

\* FeedingSchedule::saveLastFeedingToNVRAM: the stored value afterwards
saveLastFeedingToNVRAM(stored, feedingTime) ==
    IF persistenceInitialized THEN feedingTime ELSE stored

\* the time executeFeeding records: "DateTime feedingTime = DateTime();"
executeFeedingTime == DateTimeDefault

\* FeedingSchedule::executeFeeding on the engine state st =
\* [target, inprog, lastFeeding, nv, count], count the calls so far
executeFeeding(st, s) ==
    LET r == dispenseFoodAsync(s.portions)
    IN [target |-> r.target,
        inprog |-> IF r.ok THEN TRUE ELSE st.inprog,
        lastFeeding |-> executeFeedingTime,
        nv |-> saveLastFeedingToNVRAM(st.nv, executeFeedingTime),
        count |-> st.count + 1]

\* the test recoverMissedFeedings applies to entry i on the day of checkDate
recoveryHit(tbl, currentTime, lastFeeding, tol, i, checkDate) ==
    LET scheduleTime == getScheduleDateTime(tbl[i + 1], checkDate)
        minutesPast == DtDiff(currentTime, scheduleTime) \div 60
    IN /\ tbl[i + 1].enabled
       /\ ~DtLeq(currentTime, scheduleTime)
       /\ ~DtLeq(scheduleTime, lastFeeding)
       /\ minutesPast > 1
       /\ minutesPast <= tol

\* an occurrence: entry index of the table and the scheduled instant
Occurrence(tbl, i, referenceDate) ==
    [index |-> i, time |-> getScheduleDateTime(tbl[i + 1], referenceDate)]

\* the day loop of recoverMissedFeedings: the occurrences it calls
\* executeFeeding for, in order; it returns after the first
RECURSIVE recoverScan(_, _, _, _, _)
recoverScan(tbl, currentTime, lastFeeding, tol, checkDate) ==
    IF ~DtLess(checkDate, currentTime) THEN << >>
    ELSE LET hits == {i \in 0 .. Len(tbl) - 1 :
                        recoveryHit(tbl, currentTime, lastFeeding, tol, i, checkDate)}
         IN IF hits # {}
            THEN << Occurrence(tbl, CHOOSE i \in hits : \A j \in hits : i <= j,
                               checkDate) >>
            ELSE recoverScan(tbl, currentTime, lastFeeding, tol,
                             DtAddSecs(checkDate, SECONDS_PER_DAY))

\* where recoverMissedFeedings starts its scan
recoverySearchStart(currentTime, lastFeeding, hours) ==
    LET maxLookback == DtAddSecs(currentTime, -(hours * 3600))
    IN IF DtLess(lastFeeding, maxLookback) THEN maxLookback ELSE lastFeeding

\* recoverMissedFeedings going on after a hit: every hit of the first day
\* scanned is dispatched
recoverMissedFeedings_NoReturn(tbl, currentTime, lastFeeding, tol, hours) ==
    LET checkDate == recoverySearchStart(currentTime, lastFeeding, hours)
        from[k \in 0 .. Len(tbl)] ==
            IF k = Len(tbl) THEN << >>
            ELSE (IF recoveryHit(tbl, currentTime, lastFeeding, tol, k, checkDate)
                  THEN << Occurrence(tbl, k, checkDate) >> ELSE << >>)
                 \o from[k + 1]
    IN IF DtLess(checkDate, currentTime) THEN from[0] ELSE << >>

\* FeedingSchedule::recoverMissedFeedings: the occurrences it dispatches
recoverMissedFeedings(tbl, currentTime, lastFeeding, tol, hours) ==
    recoverScan(tbl, currentTime, lastFeeding, tol,
                recoverySearchStart(currentTime, lastFeeding, hours))

\* processSchedules without the test of the whole-table flag
processSkips_IgnoresEnable ==
    scheduleCount = 0 \/ schedFeedingInProgress

\* whether processSchedules returns at once
processSkips ==
    ~scheduleEnabled \/ scheduleCount = 0 \/ schedFeedingInProgress

\* ------------------------------------------------------------------------
\* Status derivation (main.cpp)
\* ------------------------------------------------------------------------
LED_STATE_READY == "LED_STATE_READY"
LED_STATE_FEEDING == "LED_STATE_FEEDING"
LED_STATE_CANCEL_FLASH == "LED_STATE_CANCEL_FLASH"

\* unsigned long subtraction of two millis() readings, the later one first;
\* the uptime of a run stays far below the 2^32 ms at which millis() wraps
ULongSub(a, b) == a - b

\* the state updateLEDStatus derives from the shared flag
derivedLEDState(flag) == IF flag THEN LED_STATE_FEEDING ELSE LED_STATE_READY

\* a cancel flash of no duration
flashExpired_AtOnce(t) == ULongSub(millis, t) >= 0

\* whether the cancel flash that began at t has run its duration
flashExpired(t) == ULongSub(millis, t) >= CANCEL_FLASH_DURATION

\* updateLEDStatus writing the indicator on every tick outside a cancel flash
updateLEDStatus_WritesEveryTick ==
    LET desired == derivedLEDState(feedingInProgress)
    IN IF currentLEDState = LED_STATE_CANCEL_FLASH
       THEN IF flashExpired(ledStateChangeTime)
            THEN [current |-> desired, applied |-> TRUE]
            ELSE [current |-> currentLEDState, applied |-> FALSE]
       ELSE [current |-> desired, applied |-> TRUE]

\* updateLEDStatus: [current, applied]; desiredLEDState is written before it
\* is read, so it is the local desired
updateLEDStatus ==
    LET desired == derivedLEDState(feedingInProgress)
    IN IF currentLEDState = LED_STATE_CANCEL_FLASH
       THEN IF flashExpired(ledStateChangeTime)
            THEN [current |-> desired, applied |-> TRUE]
            ELSE [current |-> currentLEDState, applied |-> FALSE]
       ELSE IF desired # currentLEDState
            THEN [current |-> desired, applied |-> TRUE]
            ELSE [current |-> currentLEDState, applied |-> FALSE]

\* Task rgbLedMaintenanceTask
RgbLedMaintenanceTask ==
    /\ UNCHANGED ntpVars
    /\ currentLEDState' = updateLEDStatus.current
    /\ pulseStarts' = {t \in pulseStarts : ~flashExpired(t)}
    /\ last' = IF updateLEDStatus.applied \/ currentLEDState = LED_STATE_CANCEL_FLASH
               THEN Done("rgbLedMaintenanceTask", "void", updateLEDStatus.applied,
                         IF currentLEDState = LED_STATE_CANCEL_FLASH THEN 1 ELSE 0)
               ELSE Quiet
    /\ UNCHANGED << clockVars, motorVars, schedVars, ledStateChangeTime,
                    feedingInProgress, tFeedingMonitorEnabled,
                    tMotorMaintenanceEnabled, wasFeeding >>

\* ------------------------------------------------------------------------
\* Feeding arbiter (main.cpp)
\* ------------------------------------------------------------------------
\* FeedingSchedule::recordManualFeeding and what startFeeding passes to it
recordManualFeeding(feedingTime) ==
    /\ lastCompletedFeeding' = feedingTime
    /\ nvLastFeeding' = saveLastFeedingToNVRAM(nvLastFeeding, feedingTime)

\* startRejected without the test of the flag: a start that does not refuse
\* while a feeding is in progress
startRejected_NoFlagTest(portions) ==
    \/ portions < MIN_FOOD_PORTIONS
    \/ portions > MAX_FOOD_PORTIONS
    \/ ~fcIsReady

\* the three early returns of startFeeding
startRejected(portions) ==
    \/ portions < MIN_FOOD_PORTIONS
    \/ portions > MAX_FOOD_PORTIONS
    \/ feedingInProgress
    \/ ~fcIsReady

\* startFeeding(portions, recordInSchedule), portions a uint8_t
startFeeding(portions, recordInSchedule) ==
    IF startRejected(portions)
    THEN /\ last' = Done("startFeeding", "false", FALSE, 0)
         /\ UNCHANGED << clockVars, motorVars, schedVars, ledVars,
                         feedingInProgress, tFeedingMonitorEnabled,
                         tMotorMaintenanceEnabled, wasFeeding >>
    ELSE LET r == dispenseFoodAsync(portions)
         IN IF r.ok
            THEN /\ stepperTarget' = r.target
                 /\ feedingInProgress' = TRUE
                 /\ tFeedingMonitorEnabled' = TRUE
                 /\ IF recordInSchedule
                    THEN recordManualFeeding(rtc)
                    ELSE UNCHANGED << lastCompletedFeeding, nvLastFeeding >>
                 /\ last' = Done("startFeeding", "true", FALSE, 0)
                 /\ UNCHANGED << clockVars, stepperPos, motorInitialized,
                                 fcInitialized, ledVars, tableVars, dispatched,
                                 schedFeedingInProgress, nextScheduledTime,
                                 nextScheduleIndex, tMotorMaintenanceEnabled,
                                 wasFeeding >>
            ELSE /\ last' = Done("startFeeding", "false", FALSE, 0)
                 /\ UNCHANGED << clockVars, motorVars, schedVars, ledVars,
                                 feedingInProgress, tFeedingMonitorEnabled,
                                 tMotorMaintenanceEnabled, wasFeeding >>

\* cancelFeeding()
cancelFeeding ==
    IF ~feedingInProgress
    THEN /\ last' = Done("cancelFeeding", "false", FALSE, 0)
         /\ UNCHANGED << clockVars, motorVars, schedVars, ledVars,
                         feedingInProgress, tFeedingMonitorEnabled,
                         tMotorMaintenanceEnabled, wasFeeding >>
    ELSE /\ stepperTarget' = stopTarget
         /\ feedingInProgress' = FALSE
         /\ tFeedingMonitorEnabled' = FALSE
         /\ currentLEDState' = LED_STATE_CANCEL_FLASH
         /\ ledStateChangeTime' = millis
         /\ pulseStarts' = pulseStarts \cup {millis}
         /\ last' = Done("cancelFeeding", "true", TRUE, 0)
         /\ UNCHANGED << clockVars, stepperPos, motorInitialized, fcInitialized,
                         schedVars, tMotorMaintenanceEnabled,
                         wasFeeding >>

\* no request for a move is made once the target lies past MaxTarget
MayRequest == stepperTarget <= MaxTarget

\* serial command "FEED n" (CommandListener::processMotorCommands)
CmdFeed(n) ==
    /\ UNCHANGED ntpVars
    /\ MayRequest
    /\ startFeeding((IF n <= 0 THEN 1 ELSE n) % UINT8_MOD, TRUE)

\* onTouchEvent(TOUCH_LONG_PRESS) with the touch sensor enabled
TouchLongPress ==
    /\ UNCHANGED ntpVars
    /\ IF feedingInProgress
       THEN cancelFeeding
       ELSE MayRequest /\ startFeeding(touchLongPressPortions, TRUE)

\* ------------------------------------------------------------------------
\* Web API (wifi_controller.cpp)
\* ------------------------------------------------------------------------
\* DateTime(millis() / 1000 + 946684800): the uptime counted from 2000-01-01
webFeedingTime == DtAddSecs(DT(0, 0), millis \div 1000)

\* GET /api/feed?portions=n
WebFeed(n) ==
    /\ UNCHANGED ntpVars
    /\ MayRequest
    /\ IF n < 1 \/ n > 20
       THEN UNCHANGED << stepperTarget, lastCompletedFeeding, nvLastFeeding >>
       ELSE IF fcIsReady
            THEN LET r == dispenseFoodAsync(n)
                 IN IF r.ok
                    THEN /\ stepperTarget' = r.target
                         /\ recordManualFeeding(webFeedingTime)
                    ELSE UNCHANGED << stepperTarget, lastCompletedFeeding,
                                      nvLastFeeding >>
            ELSE UNCHANGED << stepperTarget, lastCompletedFeeding, nvLastFeeding >>
    /\ last' = Quiet
    /\ UNCHANGED << clockVars, stepperPos, motorInitialized, fcInitialized,
                    ledVars, tableVars, dispatched, schedFeedingInProgress,
                    nextScheduledTime,
                    nextScheduleIndex, feedingInProgress, tFeedingMonitorEnabled,
                    tMotorMaintenanceEnabled, wasFeeding >>

\* GET /api/feed-test
WebFeedTest ==
    /\ UNCHANGED ntpVars
    /\ MayRequest
    /\ IF fcIsReady
       THEN stepperTarget' = dispenseFoodAsync(2).target
       ELSE UNCHANGED stepperTarget
    /\ last' = Quiet
    /\ UNCHANGED << clockVars, stepperPos, motorInitialized, fcInitialized,
                    ledVars, schedVars, feedingInProgress, tFeedingMonitorEnabled,
                    tMotorMaintenanceEnabled, wasFeeding >>

\* ------------------------------------------------------------------------
\* Tasks (main.cpp)
\* ------------------------------------------------------------------------
\* Task motorMaintenanceTask, run while tMotorMaintenance is enabled
MotorMaintenanceTask ==
    /\ UNCHANGED ntpVars
    /\ tMotorMaintenanceEnabled
    /\ stepperPos' = runPosition
    /\ last' = Quiet
    /\ UNCHANGED << clockVars, stepperTarget, motorInitialized, fcInitialized,
                    schedVars, ledVars, feedingInProgress, tFeedingMonitorEnabled,
                    tMotorMaintenanceEnabled, wasFeeding >>

\* feedingMonitorTask clearing the flag without asking the motor
FeedingMonitorTask_IgnoresMotor ==
    /\ UNCHANGED ntpVars
    /\ tFeedingMonitorEnabled
    /\ IF feedingInProgress
       THEN /\ feedingInProgress' = FALSE
            /\ tFeedingMonitorEnabled' = FALSE
            /\ wasFeeding' = FALSE
       ELSE UNCHANGED << feedingInProgress, tFeedingMonitorEnabled, wasFeeding >>
    /\ last' = IF feedingInProgress
               THEN Done("feedingMonitorTask", "void", FALSE, 1)
               ELSE Quiet
    /\ UNCHANGED << clockVars, motorVars, schedVars, ledVars,
                    tMotorMaintenanceEnabled >>

\* Task feedingMonitorTask, run while tFeedingMonitor is enabled
FeedingMonitorTask ==
    /\ UNCHANGED ntpVars
    /\ tFeedingMonitorEnabled
    /\ IF feedingInProgress /\ ~isRunning
       THEN /\ feedingInProgress' = FALSE
            /\ tFeedingMonitorEnabled' = FALSE
            /\ wasFeeding' = FALSE
       ELSE IF feedingInProgress /\ ~wasFeeding
            THEN /\ wasFeeding' = TRUE
                 /\ UNCHANGED << feedingInProgress, tFeedingMonitorEnabled >>
            ELSE UNCHANGED << feedingInProgress, tFeedingMonitorEnabled, wasFeeding >>
    /\ last' = IF feedingInProgress /\ ~isRunning
               THEN Done("feedingMonitorTask", "void", FALSE, 1)
               ELSE Quiet
    /\ UNCHANGED << clockVars, motorVars, schedVars, ledVars,
                    tMotorMaintenanceEnabled >>

\* pauseMotorTask (serial command PAUSE MOTOR)
PauseMotorTask ==
    /\ UNCHANGED ntpVars
    /\ tMotorMaintenanceEnabled' = FALSE
    /\ last' = Quiet
    /\ UNCHANGED << clockVars, motorVars, schedVars, ledVars, feedingInProgress,
                    tFeedingMonitorEnabled, wasFeeding >>

\* resumeMotorTask (serial command RESUME MOTOR)
ResumeMotorTask ==
    /\ UNCHANGED ntpVars
    /\ tMotorMaintenanceEnabled' = TRUE
    /\ last' = Quiet
    /\ UNCHANGED << clockVars, motorVars, schedVars, ledVars, feedingInProgress,
                    tFeedingMonitorEnabled, wasFeeding >>

\* executeFeeding called for each occurrence of occ in turn
RECURSIVE executeAll(_, _)
executeAll(st, occ) ==
    IF occ = << >> THEN st
    ELSE executeAll(executeFeeding(st, schedules[Head(occ).index + 1]), Tail(occ))

\* the on-time test of processSchedules: the occurrences it dispatches
onTimeDispatch(currentTime) ==
    IF /\ nextScheduleIndex < scheduleCount
       /\ isTimeForFeeding(currentTime, schedules[nextScheduleIndex + 1])
    THEN << Occurrence(schedules, nextScheduleIndex, DT(currentTime.day, 0)) >>
    ELSE << >>

\* FeedingSchedule::processSchedules(currentTime): the engine state
\* afterwards and the occurrences dispatched by the recovery path (rec) and
\* by the on-time path (onTime)
processSchedules(currentTime) ==
    LET st0 == [target |-> stepperTarget, inprog |-> schedFeedingInProgress,
                lastFeeding |-> lastCompletedFeeding, nv |-> nvLastFeeding,
                count |-> 0]
        rec == recoverMissedFeedings(schedules, currentTime, lastCompletedFeeding,
                                     toleranceMinutes, maxRecoveryHours)
        onTime == onTimeDispatch(currentTime)
        st2 == executeAll(executeAll(st0, rec), onTime)
    IN [st |-> st2,
        rec |-> rec,
        onTime |-> onTime,
        index |-> IF onTime # << >> THEN calculateNextFeeding(schedules, rtc).index
                  ELSE nextScheduleIndex,
        time |-> updateNextScheduledTime(schedules, currentTime)]

\* which path of processSchedules dispatched
dispatchPath(r) ==
    IF r.rec # << >> /\ r.onTime # << >> THEN "recovered+on-time"
    ELSE IF r.rec # << >> THEN "recovered"
    ELSE "on-time"

\* Task scheduleMonitorTask
ScheduleMonitorTask ==
    /\ UNCHANGED ntpVars
    /\ IF processSkips
       THEN /\ last' = Quiet
            /\ UNCHANGED << stepperTarget, schedFeedingInProgress,
                            lastCompletedFeeding, nvLastFeeding,
                            nextScheduledTime, nextScheduleIndex, dispatched >>
       ELSE LET r == processSchedules(rtc)
            IN /\ stepperTarget' = r.st.target
               /\ schedFeedingInProgress' = r.st.inprog
               /\ lastCompletedFeeding' = r.st.lastFeeding
               /\ nvLastFeeding' = r.st.nv
               /\ nextScheduleIndex' = r.index
               /\ nextScheduledTime' = r.time
               /\ dispatched' = dispatched \cup {(r.rec \o r.onTime)[k] :
                                                   k \in 1 .. r.st.count}
               /\ last' = IF r.st.count > 0
                          THEN Done("scheduleMonitorTask", dispatchPath(r), FALSE,
                                    r.st.count)
                          ELSE Quiet
    /\ UNCHANGED << clockVars, stepperPos, motorInitialized, fcInitialized,
                    ledVars, tableVars, feedingInProgress, tFeedingMonitorEnabled,
                    tMotorMaintenanceEnabled, wasFeeding >>

\* time passes: d ms on millis(), the whole seconds of it on the RTC
Advance(d) ==
    /\ UNCHANGED ntpVars
    /\ advances < MaxAdvances
    /\ advances' = advances + 1
    /\ millis' = millis + d
    /\ rtc' = DtAddSecs(rtc, d \div 1000)
    /\ last' = Quiet
    /\ UNCHANGED << motorVars, schedVars, ledVars, feedingInProgress,
                    tFeedingMonitorEnabled, tMotorMaintenanceEnabled, wasFeeding >>

\* ------------------------------------------------------------------------
\* Configuration of the schedule engine (feeding_schedule.cpp) and the
\* requests that reach it (wifi_controller.cpp, command_listener.cpp)
\* ------------------------------------------------------------------------
\* the put calls of saveSchedulesToNVRAM: "sched_count" and the keys of the
\* entries 0 .. count-1 are written, the keys of higher indices stay as
\* they are
putSchedules(stored, tbl) ==
    [count |-> Len(tbl) % UINT8_MOD,
     recs  |-> [i \in 1 .. Len(tbl) |->
                  [hour |-> tbl[i].hour % UINT8_MOD,
                   minute |-> tbl[i].minute % UINT8_MOD,
                   second |-> tbl[i].second % UINT8_MOD,
                   portions |-> tbl[i].portions % UINT8_MOD,
                   enabled |-> tbl[i].enabled,
                   description |-> tbl[i].description]]
               \o SubSeq(stored.recs, Len(tbl) + 1, Len(stored.recs))]

\* FeedingSchedule::saveSchedulesToNVRAM: the store afterwards
saveSchedulesToNVRAM(stored, tbl) ==
    IF persistenceInitialized THEN putSchedules(stored, tbl) ELSE stored

\* a store that holds no "sched_count" key
NoSchedules == [count |-> NO_SCHED_COUNT, recs |-> << >>]

\* a store that holds exactly the table tbl
StoreOf(tbl) == putSchedules(NoSchedules, tbl)

\* the six keys "s<i>_..." read with their defaults when they are absent
getRecord(stored, i) ==
    IF i + 1 <= Len(stored.recs)
    THEN [stored.recs[i + 1] EXCEPT !.description = copyDescription(@)]
    ELSE [hour |-> 0, minute |-> 0, second |-> 0, portions |-> 1,
          enabled |-> TRUE, description |-> EmptyText]

\* initializeDefaultSchedules without its call of saveSchedulesToNVRAM
initializeDefaultSchedules_NoSave(stored) ==
    [table |-> DEFAULT_FEEDING_SCHEDULE, store |-> stored]

\* FeedingSchedule::initializeDefaultSchedules with the store open: the
\* table and the store afterwards
initializeDefaultSchedules(stored) ==
    LET n == IF DEFAULT_SCHEDULE_COUNT < MAX_SCHEDULED_FEEDINGS
             THEN DEFAULT_SCHEDULE_COUNT ELSE MAX_SCHEDULED_FEEDINGS
        tbl == SubSeq(DEFAULT_FEEDING_SCHEDULE, 1, n)
    IN [table |-> tbl, store |-> putSchedules(stored, tbl)]

\* loadSchedulesFromNVRAM taking a stored count of 0 for an absent count
loadSchedulesFromNVRAM_EmptyIsAbsent(stored) ==
    IF stored.count = 0 \/ stored.count = NO_SCHED_COUNT
          \/ stored.count > MAX_SCHEDULED_FEEDINGS
    THEN initializeDefaultSchedules(stored)
    ELSE [table |-> [i \in 1 .. stored.count |-> getRecord(stored, i - 1)],
          store |-> stored]

\* FeedingSchedule::loadSchedulesFromNVRAM with the store open: the table
\* and the store afterwards
loadSchedulesFromNVRAM(stored) ==
    IF stored.count = NO_SCHED_COUNT \/ stored.count > MAX_SCHEDULED_FEEDINGS
    THEN initializeDefaultSchedules(stored)
    ELSE [table |-> [i \in 1 .. stored.count |-> getRecord(stored, i - 1)],
          store |-> stored]

\* the parameter test without its comparison of second
scheduleFieldsValid_NoSecondTest(hour, minute, second, portions) ==
    ~(hour > 23 \/ minute > 59 \/ portions < 1
        \/ portions > SCHEDULE_MAX_PORTIONS)

\* the parameter test shared by addSchedule and editSchedule
scheduleFieldsValid(hour, minute, second, portions) ==
    ~(hour > 23 \/ minute > 59 \/ second > 59 \/ portions < 1
        \/ portions > SCHEDULE_MAX_PORTIONS)

\* a table mutation that does not call saveSchedulesToNVRAM
storeTable_NoSave(tbl) ==
    /\ schedules' = tbl
    /\ nvSchedules' = nvSchedules
    /\ nextScheduledTime' = calculateNextFeeding(tbl, rtc).time
    /\ nextScheduleIndex' = calculateNextFeeding(tbl, rtc).index

\* the tail of every table mutation: the table tbl is stored and the next
\* feeding recalculated
storeTable(tbl) ==
    /\ schedules' = tbl
    /\ nvSchedules' = saveSchedulesToNVRAM(nvSchedules, tbl)
    /\ nextScheduledTime' = calculateNextFeeding(tbl, rtc).time
    /\ nextScheduleIndex' = calculateNextFeeding(tbl, rtc).index

\* FeedingSchedule::addSchedule(hour, minute, second, portions), all uint8_t
addSchedule(hour, minute, second, portions) ==
    IF scheduleCount >= MAX_SCHEDULED_FEEDINGS
          \/ ~scheduleFieldsValid(hour, minute, second, portions)
    THEN /\ last' = Done("addSchedule", "false", FALSE, 0)
         /\ UNCHANGED << schedules, nvSchedules, nextScheduledTime,
                         nextScheduleIndex >>
    ELSE /\ storeTable(Append(schedules,
                              [hour |-> hour, minute |-> minute,
                               second |-> second, portions |-> portions,
                               enabled |-> TRUE, description |-> EmptyText]))
         /\ last' = Done("addSchedule", "true", FALSE, 0)

\* editSchedule writing a whole fresh entry, its enabled flag set
editSchedule_Enables(index, hour, minute, second, portions) ==
    IF index >= scheduleCount
          \/ ~scheduleFieldsValid(hour, minute, second, portions)
    THEN /\ last' = Done("editSchedule", "false", FALSE, 0)
         /\ UNCHANGED << schedules, nvSchedules, nextScheduledTime,
                         nextScheduleIndex >>
    ELSE /\ storeTable([schedules EXCEPT
                          ![index + 1] = [hour |-> hour, minute |-> minute,
                                          second |-> second,
                                          portions |-> portions,
                                          enabled |-> TRUE,
                                          description |-> EmptyText]])
         /\ last' = Done("editSchedule", "true", FALSE, 0)

\* FeedingSchedule::editSchedule(index, hour, minute, second, portions)
editSchedule(index, hour, minute, second, portions) ==
    IF index >= scheduleCount
          \/ ~scheduleFieldsValid(hour, minute, second, portions)
    THEN /\ last' = Done("editSchedule", "false", FALSE, 0)
         /\ UNCHANGED << schedules, nvSchedules, nextScheduledTime,
                         nextScheduleIndex >>
    ELSE /\ storeTable([schedules EXCEPT
                          ![index + 1] = [hour |-> hour, minute |-> minute,
                                          second |-> second,
                                          portions |-> portions,
                                          enabled |-> @.enabled,
                                          description |-> EmptyText]])
         /\ last' = Done("editSchedule", "true", FALSE, 0)

\* removeSchedule without its shift loop: the last entry is the one dropped
removeSchedule_NoShift(index) ==
    IF index >= scheduleCount
    THEN /\ last' = Done("removeSchedule", "false", FALSE, 0)
         /\ UNCHANGED << schedules, nvSchedules, nextScheduledTime,
                         nextScheduleIndex >>
    ELSE /\ storeTable(SubSeq(schedules, 1, scheduleCount - 1))
         /\ last' = Done("removeSchedule", "true", FALSE, 0)

\* FeedingSchedule::removeSchedule(index)
removeSchedule(index) ==
    IF index >= scheduleCount
    THEN /\ last' = Done("removeSchedule", "false", FALSE, 0)
         /\ UNCHANGED << schedules, nvSchedules, nextScheduledTime,
                         nextScheduleIndex >>
    ELSE /\ storeTable(SubSeq(schedules, 1, index)
                         \o SubSeq(schedules, index + 2, scheduleCount))
         /\ last' = Done("removeSchedule", "true", FALSE, 0)

\* FeedingSchedule::enableScheduleAtIndex(index, enabled)
enableScheduleAtIndex(index, enabled) ==
    IF index >= scheduleCount
    THEN UNCHANGED << schedules, nvSchedules, nextScheduledTime,
                      nextScheduleIndex >>
    ELSE storeTable([schedules EXCEPT ![index + 1].enabled = enabled])

\* FeedingSchedule::enableSchedule(enabled)
enableSchedule(enabled) ==
    /\ scheduleEnabled' = enabled
    /\ IF enabled
       THEN /\ nextScheduledTime' = calculateNextFeeding(schedules, rtc).time
            /\ nextScheduleIndex' = calculateNextFeeding(schedules, rtc).index
       ELSE UNCHANGED << nextScheduledTime, nextScheduleIndex >>

\* FeedingSchedule::setTolerance(uint16_t toleranceMinutes): the value it
\* stores in toleranceMinutes
setTolerance(minutes) == minutes % UINT16_MOD

\* FeedingSchedule::setMaxRecoveryHours(uint16_t maxHours): the value it
\* stores in maxRecoveryHours
setMaxRecoveryHours(maxHours) == maxHours % UINT16_MOD

\* arguments the two setters are examined with
SetterInputs == {0, 1, 30, 72, 73, 120, 121, 65535}

\* setSchedules without its limit on count
setSchedules_NoLimit(scheduleArray, count) ==
    storeTable(SubSeq(scheduleArray, 1, count))

\* FeedingSchedule::setSchedules(scheduleArray, count), count a uint8_t
setSchedules(scheduleArray, count) ==
    storeTable(SubSeq(scheduleArray, 1,
                      IF count > MAX_SCHEDULED_FEEDINGS
                      THEN MAX_SCHEDULED_FEEDINGS ELSE count))

\* everything outside the schedule engine
nonEngineVars == << clockVars, motorVars, ledVars, feedingInProgress,
                    tFeedingMonitorEnabled, tMotorMaintenanceEnabled,
                    wasFeeding >>

\* one more configuration request is made
MayConfigure ==
    /\ edits < MaxEdits
    /\ edits' = edits + 1

\* GET /api/schedule/add: the int arguments are narrowed to uint8_t
ApiScheduleAdd(hour, minute, second, portions) ==
    /\ UNCHANGED ntpVars
    /\ MayConfigure
    /\ addSchedule(hour % UINT8_MOD, minute % UINT8_MOD, second % UINT8_MOD,
                   portions % UINT8_MOD)
    /\ UNCHANGED << nonEngineVars, scheduleEnabled, schedFeedingInProgress,
                    lastCompletedFeeding, nvLastFeeding, persistenceInitialized,
                    toleranceMinutes, maxRecoveryHours, dispatched >>

\* GET /api/schedule/edit
ApiScheduleEdit(index, hour, minute, second, portions) ==
    /\ UNCHANGED ntpVars
    /\ MayConfigure
    /\ editSchedule(index % UINT8_MOD, hour % UINT8_MOD, minute % UINT8_MOD,
                    second % UINT8_MOD, portions % UINT8_MOD)
    /\ UNCHANGED << nonEngineVars, scheduleEnabled, schedFeedingInProgress,
                    lastCompletedFeeding, nvLastFeeding, persistenceInitialized,
                    toleranceMinutes, maxRecoveryHours, dispatched >>

\* GET /api/schedule/delete
ApiScheduleDelete(index) ==
    /\ UNCHANGED ntpVars
    /\ MayConfigure
    /\ removeSchedule(index % UINT8_MOD)
    /\ UNCHANGED << nonEngineVars, scheduleEnabled, schedFeedingInProgress,
                    lastCompletedFeeding, nvLastFeeding, persistenceInitialized,
                    toleranceMinutes, maxRecoveryHours, dispatched >>

\* serial commands "SCHEDULE ENABLE n" / "SCHEDULE DISABLE n"
CmdScheduleEnableAt(index, enabled) ==
    /\ UNCHANGED ntpVars
    /\ MayConfigure
    /\ IF index >= 0 /\ index < scheduleCount
       THEN enableScheduleAtIndex(index, enabled)
       ELSE UNCHANGED << schedules, nvSchedules, nextScheduledTime,
                         nextScheduleIndex >>
    /\ last' = Quiet
    /\ UNCHANGED << nonEngineVars, scheduleEnabled, schedFeedingInProgress,
                    lastCompletedFeeding, nvLastFeeding, persistenceInitialized,
                    toleranceMinutes, maxRecoveryHours, dispatched >>

\* serial commands "SCHEDULE ENABLE" / "SCHEDULE DISABLE"
CmdScheduleEnable(enabled) ==
    /\ UNCHANGED ntpVars
    /\ MayConfigure
    /\ enableSchedule(enabled)
    /\ last' = Quiet
    /\ UNCHANGED << nonEngineVars, schedules, nvSchedules,
                    schedFeedingInProgress, lastCompletedFeeding, nvLastFeeding,
                    persistenceInitialized, toleranceMinutes, maxRecoveryHours,
                    dispatched >>

\* the tolerance command without its range test
CmdScheduleTolerance_NoRangeTest(tolerance) ==
    /\ UNCHANGED ntpVars
    /\ MayConfigure
    /\ toleranceMinutes' = setTolerance(tolerance)
    /\ last' = Quiet
    /\ UNCHANGED << nonEngineVars, schedules, nvSchedules, scheduleEnabled,
                    schedFeedingInProgress, lastCompletedFeeding, nvLastFeeding,
                    persistenceInitialized, nextScheduledTime, nextScheduleIndex,
                    maxRecoveryHours, dispatched >>

\* serial command "SCHEDULE TOLERANCE n"
CmdScheduleTolerance(tolerance) ==
    /\ UNCHANGED ntpVars
    /\ MayConfigure
    /\ toleranceMinutes' = IF tolerance > 0 /\ tolerance <= MAX_TOLERANCE_MINUTES
                           THEN setTolerance(tolerance) ELSE toleranceMinutes
    /\ last' = Quiet
    /\ UNCHANGED << nonEngineVars, schedules, nvSchedules, scheduleEnabled,
                    schedFeedingInProgress, lastCompletedFeeding, nvLastFeeding,
                    persistenceInitialized, nextScheduledTime, nextScheduleIndex,
                    maxRecoveryHours, dispatched >>

\* serial command "SCHEDULE RECOVERY n"
CmdScheduleRecovery(recovery) ==
    /\ UNCHANGED ntpVars
    /\ MayConfigure
    /\ maxRecoveryHours' = IF recovery > 0 /\ recovery <= MAX_RECOVERY_HOURS
                           THEN setMaxRecoveryHours(recovery) ELSE maxRecoveryHours
    /\ last' = Quiet
    /\ UNCHANGED << nonEngineVars, schedules, nvSchedules, scheduleEnabled,
                    schedFeedingInProgress, lastCompletedFeeding, nvLastFeeding,
                    persistenceInitialized, nextScheduledTime, nextScheduleIndex,
                    toleranceMinutes, dispatched >>

\* ------------------------------------------------------------------------
\* Time synchronisation (ntp_sync.cpp, config.cpp)
\* ------------------------------------------------------------------------
NTP_SYNC_INTERVAL == 43200000

NTP_SYNC_TIMEOUT == 10000

NTP_INITIAL_SYNC_DELAY == 5000

\* the least time between two polls of getLocalTime
NTP_CHECK_INTERVAL == 500

SECONDS_FROM_1970_TO_2000 == 946684800

\* the year below which the RTC counts as outdated
RTC_OUTDATED_YEAR == 2020

\* the type of every entry of TIME_SERVERS, in list order
TIME_SERVERS ==
    << "ntp", "http", "ntp", "http", "ntp", "ntp", "ntp", "ntp", "ntp", "ntp" >>

\* the server of every entry of TIME_SERVERS
TIME_SERVER_NAMES ==
    << "time.google.com", "worldtimeapi.org/api/timezone/America/Sao_Paulo",
       "time.cloudflare.com", "worldclockapi.com/api/json/utc/now",
       "pool.ntp.org", "time.nist.gov", "br.pool.ntp.org",
       "south-america.pool.ntp.org", "0.pool.ntp.org", "1.pool.ntp.org" >>

TIME_SERVERS_COUNT == Len(TIME_SERVERS)

\* DateTime::year() for 2000 .. 2099, where every fourth year from 2000 on is
\* a leap year and four years have 1461 days; a reading with a zero field or
\* before 2000 is held as a negative day and has year 0
year(dt) ==
    IF dt.day < 0 THEN 0
    ELSE 2000 + (4 * dt.day) \div 1461

\* DateTime::unixtime()
unixtime(dt) == SECONDS_FROM_1970_TO_2000 + dt.day * SECONDS_PER_DAY + dt.sod

\* NTPSync::isRTCValid
isRTCValid(rtcNow) ==
    IF year(rtcNow) = 0 THEN FALSE
    ELSE IF unixtime(rtcNow) < SECONDS_FROM_1970_TO_2000 THEN FALSE
    ELSE TRUE

\* NTPSync::isRTCOutdated
isRTCOutdated(rtcNow) == year(rtcNow) < RTC_OUTDATED_YEAR

\* shouldSyncNTP without the test of the year
shouldSyncNTP_NoOutdatedTest(rtcNow, lastSyncTimestampNVRAM, syncIntervalMs) ==
    IF ~isRTCValid(rtcNow) THEN TRUE
    ELSE IF lastSyncTimestampNVRAM = 0 THEN TRUE
    ELSE IF ~(unixtime(rtcNow) >= lastSyncTimestampNVRAM) THEN TRUE
    ELSE IF unixtime(rtcNow) - lastSyncTimestampNVRAM >= syncIntervalMs \div 1000
         THEN TRUE
    ELSE FALSE

\* NTPSync::shouldSyncNTP over the RTC reading and the object's fields
shouldSyncNTP(rtcNow, lastSyncTimestampNVRAM, syncIntervalMs) ==
    IF ~isRTCValid(rtcNow) THEN TRUE
    ELSE IF isRTCOutdated(rtcNow) THEN TRUE
    ELSE IF lastSyncTimestampNVRAM = 0 THEN TRUE
    ELSE IF ~(unixtime(rtcNow) >= lastSyncTimestampNVRAM) THEN TRUE
    ELSE IF unixtime(rtcNow) - lastSyncTimestampNVRAM >= syncIntervalMs \div 1000
         THEN TRUE
    ELSE FALSE

\* what sntpServer holds before configTime is called
NO_SERVER == -1

\* the NTPSync object after its constructor and begin(), the store holding
\* stored under "ntp_last_sync" (0 when the key is absent), with the two
\* settings of the network stack that only this object writes: wifiSleep is
\* WiFi.getSleep(), on when the radio starts, and sntpServer the index of the
\* entry configTime was last given
NTPSyncObject(stored) ==
    [ ntpInitialized         |-> FALSE,
      syncInProgress         |-> FALSE,
      waitingForNTPResponse  |-> FALSE,
      initialSyncPending     |-> FALSE,
      wifiConnectedTime      |-> 0,
      syncStartTime          |-> 0,
      lastSyncCheck          |-> 0,
      lastSuccessfulSync     |-> 0,
      currentServerIndex     |-> 0,
      needsReconfigure       |-> TRUE,
      syncAttempts           |-> 0,
      successfulSyncs        |-> 0,
      failedSyncs            |-> 0,
      syncIntervalMs         |-> NTP_SYNC_INTERVAL,
      previousWiFiSleepState |-> FALSE,
      lastSyncTimestampNVRAM |-> stored,
      wifiSleep              |-> TRUE,
      sntpServer             |-> NO_SERVER ]

\* no HTTP time source is under study
NoAnswer == [server |-> "", field |-> "", text |-> << >>, sent |-> NoValue]

\* the AVR prototype is not powered
AvrOff == [pc |-> "off"]

\* the two tasks that drive the engine; both are enabled from the start and
\* run once in every period of tNTPSync
NetworkTasks == {"tWiFiMonitor", "tNTPSync"}

\* the time-sync part of setup(): the object begins over the store, the radio
\* is not connected yet and no cycle has tried any source
BootNtp(stored) ==
    /\ ntp = NTPSyncObject(stored)
    /\ wifi = [connected |-> FALSE, wasConnected |-> FALSE]
    /\ events = 0
    /\ due = NetworkTasks
    /\ tried = << >>
    /\ http = NoAnswer
    /\ avr = AvrOff

\* ------------------------------------------------------------------------
\* The state after setup()
\* ------------------------------------------------------------------------
\* what the RTC reads at boot and what the store holds under "last_feeding"
BootScenarios ==
    { [now |-> DT(BootDay, HMS(11, 59, 30)), stored |-> DT(BootDay - 1, HMS(18, 0, 0))],
      [now |-> DT(BootDay, HMS(12, 20, 0)),  stored |-> DT(BootDay, HMS(8, 0, 10))],
      [now |-> DT(BootDay, HMS(12, 20, 0)),  stored |-> NoValue],
      [now |-> DT(BootDay, HMS(15, 0, 0)),   stored |-> DT(BootDay, HMS(12, 0, 5))] }

\* FeedingSchedule::loadLastFeedingFromNVRAM over the constructor's default
loadLastFeedingFromNVRAM(stored) ==
    IF stored = NoValue THEN DT(0, 0) ELSE stored

\* setup() with the RTC reading now, the store holding stored under
\* "last_feeding" and the schedule records store
Boot(now, stored, store, ready) ==
    /\ millis = 0
    /\ advances = 0
    /\ rtc = now
    /\ stepperPos = 0
    /\ stepperTarget = 0
    /\ motorInitialized = ready
    /\ fcInitialized = ready
    /\ feedingInProgress = FALSE
    /\ tFeedingMonitorEnabled = FALSE
    /\ tMotorMaintenanceEnabled = TRUE
    /\ wasFeeding = FALSE
    /\ currentLEDState = LED_STATE_READY
    /\ ledStateChangeTime = 0
    /\ schedules = loadSchedulesFromNVRAM(store).table
    /\ scheduleEnabled = TRUE
    /\ schedFeedingInProgress = FALSE
    /\ lastCompletedFeeding = loadLastFeedingFromNVRAM(stored)
    /\ nvLastFeeding = stored
    /\ persistenceInitialized = TRUE
    /\ nextScheduledTime
          = calculateNextFeeding(loadSchedulesFromNVRAM(store).table, now).time
    /\ nextScheduleIndex
          = calculateNextFeeding(loadSchedulesFromNVRAM(store).table, now).index
    /\ toleranceMinutes = FEEDING_SCHEDULE_TOLERANCE_MINUTES
    /\ maxRecoveryHours = FEEDING_SCHEDULE_MAX_RECOVERY_HOURS
    /\ nvSchedules = loadSchedulesFromNVRAM(store).store
    /\ edits = 0
    /\ dispatched = {}
    /\ pulseStarts = {}
    /\ last = Done("setup", "void", FALSE, 0)

Init ==
    \E b \in BootScenarios, ready \in BOOLEAN :
        Boot(b.now, b.stored, NoSchedules, ready) /\ BootNtp(0)

Next ==
    \/ \E d \in Jumps : Advance(d)
    \/ \E n \in FeedInputs : CmdFeed(n)
    \/ TouchLongPress
    \/ \E n \in WebPortionInputs : WebFeed(n)
    \/ WebFeedTest
    \/ MotorMaintenanceTask
    \/ FeedingMonitorTask
    \/ RgbLedMaintenanceTask
    \/ ScheduleMonitorTask
    \/ PauseMotorTask
    \/ ResumeMotorTask

Spec == Init /\ [][Next]_vars

\* ------------------------------------------------------------------------
\* Fairness: the scheduler runs every enabled task again and again, and a
\* paused motor task is resumed
\* ------------------------------------------------------------------------
LiveSpec ==
    /\ Spec
    /\ SF_vars(MotorMaintenanceTask)
    /\ SF_vars(FeedingMonitorTask)
    /\ WF_vars(ResumeMotorTask)

\* ------------------------------------------------------------------------
\* The schedule engine on its own: the tables the store may hold at boot,
\* the configuration requests, the schedule task and the motor task
\* ------------------------------------------------------------------------
Entry(hour, minute, portions, enabled) ==
    [hour |-> hour, minute |-> minute, second |-> 0, portions |-> portions,
     enabled |-> enabled, description |-> EmptyText]

\* an entry shortly after midnight and a disabled one
MidnightTable == << Entry(0, 5, 2, TRUE), Entry(12, 0, 1, FALSE) >>

\* a table holding MAX_SCHEDULED_FEEDINGS entries, two of them 20 minutes apart
FullTable ==
    << Entry(6, 0, 1, TRUE), Entry(7, 0, 1, TRUE), Entry(8, 0, 2, TRUE),
       Entry(9, 0, 1, TRUE), Entry(12, 0, 1, TRUE), Entry(12, 20, 1, TRUE),
       Entry(15, 0, 1, TRUE), Entry(18, 0, 2, TRUE), Entry(20, 0, 1, TRUE),
       Entry(22, 0, 1, TRUE) >>

EngineScenarios ==
    { [now |-> DT(BootDay, HMS(12, 0, 5)),   stored |-> DT(BootDay - 1, HMS(18, 0, 0)),
       table |-> DEFAULT_FEEDING_SCHEDULE],
      [now |-> DT(BootDay, HMS(11, 59, 30)), stored |-> DT(BootDay - 1, HMS(18, 0, 0)),
       table |-> DEFAULT_FEEDING_SCHEDULE],
      [now |-> DT(BootDay, HMS(12, 20, 0)),  stored |-> DT(BootDay, HMS(8, 0, 10)),
       table |-> DEFAULT_FEEDING_SCHEDULE],
      [now |-> DT(BootDay, HMS(12, 40, 0)),  stored |-> DT(BootDay, HMS(8, 0, 10)),
       table |-> DEFAULT_FEEDING_SCHEDULE],
      [now |-> DT(BootDay, HMS(13, 30, 0)),  stored |-> DT(BootDay, HMS(8, 0, 10)),
       table |-> DEFAULT_FEEDING_SCHEDULE],
      [now |-> DT(BootDay, HMS(0, 10, 0)),   stored |-> DT(BootDay - 1, HMS(23, 50, 0)),
       table |-> MidnightTable],
      [now |-> DT(BootDay, HMS(12, 19, 30)), stored |-> DT(BootDay - 1, HMS(18, 0, 0)),
       table |-> FullTable] }

\* arguments of /api/schedule/add and /api/schedule/edit
ScheduleInputs ==
    { << 12, 20, 0, 1 >>, << 12, 30, 0, 15 >>, << 24, 0, 0, 1 >>,
      << 12, 60, 0, 1 >>, << 12, 0, 60, 1 >>, << 12, 30, 0, 0 >>,
      << 12, 30, 0, 21 >> }
\* index arguments of the schedule requests
IndexInputs == {0, 1, 10}
\* arguments of the TOLERANCE and RECOVERY commands
ToleranceInputs == {0, 1, 120, 121}
RecoveryInputs == {0, 1, 72, 73}
\* milliseconds between two runs of the schedule task
EngineJumps == {30000, 150000}

EngineInit ==
    \E b \in EngineScenarios, ready \in BOOLEAN :
        Boot(b.now, b.stored, StoreOf(b.table), ready) /\ BootNtp(0)

EngineNext ==
    \/ \E d \in EngineJumps : Advance(d)
    \/ ScheduleMonitorTask
    \/ MotorMaintenanceTask
    \/ \E e \in ScheduleInputs : ApiScheduleAdd(e[1], e[2], e[3], e[4])
    \/ \E i \in IndexInputs, e \in ScheduleInputs :
          ApiScheduleEdit(i, e[1], e[2], e[3], e[4])
    \/ \E i \in IndexInputs : ApiScheduleDelete(i)
    \/ \E i \in IndexInputs, b \in BOOLEAN : CmdScheduleEnableAt(i, b)
    \/ \E b \in BOOLEAN : CmdScheduleEnable(b)
    \/ \E t \in ToleranceInputs : CmdScheduleTolerance(t)
    \/ \E h \in RecoveryInputs : CmdScheduleRecovery(h)

EngineSpec == EngineInit /\ [][EngineNext]_vars

\* ------------------------------------------------------------------------
\* The schedule table and its store across reboots
\* ------------------------------------------------------------------------
\* a table of MAX_SCHEDULED_FEEDINGS + 1 entries
LongTable == Append(FullTable, Entry(23, 0, 1, TRUE))

\* what the store holds at the first boot: no count, a count above 10, an
\* empty table, a table of two entries, a table of 10 entries
StoreScenarios ==
    { NoSchedules,
      [count |-> MAX_SCHEDULED_FEEDINGS + 1, recs |-> LongTable],
      StoreOf(<< >>),
      StoreOf(MidnightTable),
      StoreOf(FullTable) }

\* a table of one disabled entry whose description fills its 49 characters
DescribedTable ==
    << [hour |-> 7, minute |-> 30, second |-> 15, portions |-> 3,
        enabled |-> FALSE,
        description |-> Text("Half past seven, three portions, before the light", 49)] >>

\* arguments of setSchedules: an array and a count within it
SetSchedulesInputs ==
    { << << >>, 0 >>, << DescribedTable, 1 >>, << LongTable, 11 >> }

\* a call of setSchedules
CallSetSchedules(scheduleArray, count) ==
    /\ UNCHANGED ntpVars
    /\ MayConfigure
    /\ setSchedules(scheduleArray, count % UINT8_MOD)
    /\ last' = Done("setSchedules", "void", FALSE, 0)
    /\ UNCHANGED << nonEngineVars, scheduleEnabled, schedFeedingInProgress,
                    lastCompletedFeeding, nvLastFeeding, persistenceInitialized,
                    toleranceMinutes, maxRecoveryHours, dispatched >>

\* power is cycled: the constructors and setup() run again over the store
\* and the battery-backed RTC
Reboot ==
    /\ millis' = 0
    /\ stepperPos' = 0
    /\ stepperTarget' = 0
    /\ feedingInProgress' = FALSE
    /\ tFeedingMonitorEnabled' = FALSE
    /\ tMotorMaintenanceEnabled' = TRUE
    /\ wasFeeding' = FALSE
    /\ currentLEDState' = LED_STATE_READY
    /\ ledStateChangeTime' = 0
    /\ schedules' = loadSchedulesFromNVRAM(nvSchedules).table
    /\ scheduleEnabled' = TRUE
    /\ schedFeedingInProgress' = FALSE
    /\ lastCompletedFeeding' = loadLastFeedingFromNVRAM(nvLastFeeding)
    /\ persistenceInitialized' = TRUE
    /\ nextScheduledTime'
          = calculateNextFeeding(loadSchedulesFromNVRAM(nvSchedules).table, rtc).time
    /\ nextScheduleIndex'
          = calculateNextFeeding(loadSchedulesFromNVRAM(nvSchedules).table, rtc).index
    /\ toleranceMinutes' = FEEDING_SCHEDULE_TOLERANCE_MINUTES
    /\ maxRecoveryHours' = FEEDING_SCHEDULE_MAX_RECOVERY_HOURS
    /\ nvSchedules' = loadSchedulesFromNVRAM(nvSchedules).store
    /\ pulseStarts' = {}
    /\ ntp' = NTPSyncObject(ntp.lastSyncTimestampNVRAM)
    /\ wifi' = [connected |-> FALSE, wasConnected |-> FALSE]
    /\ events' = events
    /\ due' = NetworkTasks
    /\ tried' = << >>
    /\ UNCHANGED benchVars
    /\ last' = Done("setup", "void", FALSE, 1)
    /\ UNCHANGED << rtc, advances, motorInitialized, fcInitialized,
                    nvLastFeeding, edits, dispatched >>

StoreInit ==
    \E st \in StoreScenarios, ready \in BOOLEAN :
        /\ Boot(DT(BootDay, HMS(11, 59, 30)), DT(BootDay - 1, HMS(18, 0, 0)), st, ready)
        /\ BootNtp(0)

StoreNext ==
    \/ Reboot
    \/ ScheduleMonitorTask
    \/ \E e \in ScheduleInputs : ApiScheduleAdd(e[1], e[2], e[3], e[4])
    \/ \E i \in IndexInputs, e \in ScheduleInputs :
          ApiScheduleEdit(i, e[1], e[2], e[3], e[4])
    \/ \E i \in IndexInputs : ApiScheduleDelete(i)
    \/ \E i \in IndexInputs, b \in BOOLEAN : CmdScheduleEnableAt(i, b)
    \/ \E b \in BOOLEAN : CmdScheduleEnable(b)
    \/ \E a \in SetSchedulesInputs : CallSetSchedules(a[1], a[2])

StoreSpec == StoreInit /\ [][StoreNext]_vars

\* ------------------------------------------------------------------------
\* The time-sync engine: the network, the two tasks that drive the engine,
\* the serial commands and the time servers' answers. The indicator writes of
\* wifiMonitorTask and ntpSyncTask go to RGBLed::_deviceStatus only.
\* ------------------------------------------------------------------------
\* the uptime up to which the engine is followed
NtpMaxMillis == 780000

\* the period of tNTPSync
NTP_TASK_INTERVAL == 60000

\* the time between two runs of the tasks
NtpJumps == {NTP_TASK_INTERVAL}

\* the minutes "NTP INTERVAL n" is given
IntervalInputs == {0, 1}

\* the time the servers report
networkTime == DtAddSecs(DT(BootDay, HMS(12, 0, 0)), millis \div 1000)

\* NTPSync::onWiFiConnected
onWiFiConnected(o) ==
    IF shouldSyncNTP(rtc, o.lastSyncTimestampNVRAM, o.syncIntervalMs)
    THEN [o EXCEPT !.wifiConnectedTime = millis, !.initialSyncPending = TRUE]
    ELSE [o EXCEPT !.initialSyncPending = FALSE]

\* NTPSync::configureNTPWithServer
configureNTPWithServer(o, serverIndex) ==
    LET s == [o EXCEPT !.currentServerIndex = serverIndex]
    IN IF serverIndex >= TIME_SERVERS_COUNT THEN s
       ELSE IF TIME_SERVERS[serverIndex + 1] = "http" THEN s
       ELSE [s EXCEPT !.sntpServer = serverIndex,
                      !.ntpInitialized = TRUE, !.needsReconfigure = FALSE]

\* NTPSync::configureNTP
configureNTP(o) == configureNTPWithServer(o, 0)

\* NTPSync::performNTPSync
performNTPSync(o) ==
    LET s == [o EXCEPT !.syncInProgress = TRUE,
                       !.waitingForNTPResponse = TRUE,
                       !.syncStartTime = millis,
                       !.lastSyncCheck = 0,
                       !.previousWiFiSleepState = o.wifiSleep,
                       !.wifiSleep = FALSE]
    IN IF ~s.ntpInitialized \/ s.needsReconfigure THEN configureNTP(s) ELSE s

\* NTPSync::forceSyncNow: the object after the call
forceSyncNow(o) ==
    IF o.syncInProgress THEN o
    ELSE IF ~wifi.connected THEN o
    ELSE performNTPSync([o EXCEPT !.syncAttempts = @ + 1])

\* saveLastSyncToNVRAM writing nothing
saveLastSyncToNVRAM_NoWrite(o, timestamp) == o

\* NTPSync::saveLastSyncToNVRAM
saveLastSyncToNVRAM(o, timestamp) == [o EXCEPT !.lastSyncTimestampNVRAM = timestamp]

\* NTPSync::updateRTCFromNTP: the RTC after the call
updateRTCFromNTP(rtcTime, ntpTime) ==
    LET timeDiff == unixtime(ntpTime) - unixtime(rtcTime)
    IN IF (IF timeDiff < 0 THEN -timeDiff ELSE timeDiff) > 2
       THEN ntpTime ELSE rtcTime

\* the local time an answer of worldclockapi.com yields: it carries no seconds
withoutSeconds(dt) == DT(dt.day, dt.sod - (dt.sod % 60))

\* NTPSync::tryHTTPTimeFallback: [ok, rtc]; httpOk says whether the server of
\* the current entry answers with a datetime that parses
tryHTTPTimeFallback(o, httpOk) ==
    IF o.currentServerIndex >= TIME_SERVERS_COUNT THEN [ok |-> FALSE, rtc |-> rtc]
    ELSE IF TIME_SERVERS[o.currentServerIndex + 1] # "http"
    THEN [ok |-> FALSE, rtc |-> rtc]
    ELSE IF TIME_SERVER_NAMES[o.currentServerIndex + 1]
               = "worldtimeapi.org/api/timezone/America/Sao_Paulo"
    THEN [ok |-> httpOk, rtc |-> IF httpOk THEN networkTime ELSE rtc]
    ELSE IF TIME_SERVER_NAMES[o.currentServerIndex + 1]
               = "worldclockapi.com/api/json/utc/now"
    THEN [ok |-> httpOk, rtc |-> IF httpOk THEN withoutSeconds(networkTime) ELSE rtc]
    ELSE [ok |-> FALSE, rtc |-> rtc]

\* WiFi.getSleep() after "if (previousWiFiSleepState) WiFi.setSleep(true)"
restoredSleep(o) == IF o.previousWiFiSleepState THEN TRUE ELSE o.wifiSleep

\* NTPSync::checkNTPSyncProgress: [obj, rtc, ret]; httpOk is what
\* tryHTTPTimeFallback returns for an http entry, gotTime what getLocalTime
\* returns
checkNTPSyncProgress(o, httpOk, gotTime) ==
    IF ~o.waitingForNTPResponse THEN [obj |-> o, rtc |-> rtc, ret |-> FALSE]
    ELSE IF ULongSub(millis, o.syncStartTime) > NTP_SYNC_TIMEOUT
    THEN IF o.currentServerIndex < TIME_SERVERS_COUNT - 1
         THEN LET s == [o EXCEPT !.currentServerIndex = @ + 1]
              IN IF TIME_SERVERS[s.currentServerIndex + 1] = "http"
                 THEN IF tryHTTPTimeFallback(s, httpOk).ok
                      THEN [obj |-> saveLastSyncToNVRAM(
                                       [s EXCEPT !.successfulSyncs = @ + 1,
                                                 !.lastSuccessfulSync = millis,
                                                 !.syncInProgress = FALSE,
                                                 !.waitingForNTPResponse = FALSE,
                                                 !.needsReconfigure = TRUE,
                                                 !.currentServerIndex = 0,
                                                 !.wifiSleep = restoredSleep(s)],
                                       unixtime(tryHTTPTimeFallback(s, httpOk).rtc)),
                            rtc |-> tryHTTPTimeFallback(s, httpOk).rtc, ret |-> TRUE]
                      ELSE [obj |-> [s EXCEPT !.syncStartTime = millis,
                                              !.lastSyncCheck = 0],
                            rtc |-> rtc, ret |-> FALSE]
                 ELSE [obj |-> [configureNTPWithServer(s, s.currentServerIndex)
                                   EXCEPT !.syncStartTime = millis,
                                          !.lastSyncCheck = 0],
                       rtc |-> rtc, ret |-> FALSE]
         ELSE [obj |-> [o EXCEPT !.currentServerIndex = 0,
                                 !.failedSyncs = @ + 1,
                                 !.syncInProgress = FALSE,
                                 !.waitingForNTPResponse = FALSE,
                                 !.needsReconfigure = TRUE,
                                 !.wifiSleep = restoredSleep(o)],
               rtc |-> rtc, ret |-> TRUE]
    ELSE IF ULongSub(millis, o.lastSyncCheck) < NTP_CHECK_INTERVAL
    THEN [obj |-> o, rtc |-> rtc, ret |-> FALSE]
    ELSE LET s == [o EXCEPT !.lastSyncCheck = millis]
         IN IF TIME_SERVERS[s.currentServerIndex + 1] = "http"
            THEN [obj |-> s, rtc |-> rtc, ret |-> FALSE]
            ELSE IF gotTime
            THEN [obj |-> saveLastSyncToNVRAM(
                             [s EXCEPT !.successfulSyncs = @ + 1,
                                       !.lastSuccessfulSync = millis,
                                       !.syncInProgress = FALSE,
                                       !.waitingForNTPResponse = FALSE,
                                       !.currentServerIndex = 0,
                                       !.wifiSleep = restoredSleep(s)],
                             unixtime(updateRTCFromNTP(rtc, networkTime))),
                  rtc |-> updateRTCFromNTP(rtc, networkTime), ret |-> TRUE]
            ELSE [obj |-> s, rtc |-> rtc, ret |-> FALSE]

\* handleNTPSync leaving a cycle in progress when the network is gone
handleNTPSync_NoAbort(o, httpOk, gotTime) ==
    IF ~wifi.connected
    THEN [obj |-> o, rtc |-> rtc]
    ELSE IF o.syncInProgress /\ o.waitingForNTPResponse
    THEN [obj |-> checkNTPSyncProgress(o, httpOk, gotTime).obj,
          rtc |-> checkNTPSyncProgress(o, httpOk, gotTime).rtc]
    ELSE IF o.initialSyncPending
            /\ ULongSub(millis, o.wifiConnectedTime) > NTP_INITIAL_SYNC_DELAY
    THEN [obj |-> [forceSyncNow(o) EXCEPT !.initialSyncPending = FALSE],
          rtc |-> rtc]
    ELSE IF o.lastSuccessfulSync > 0
            /\ ULongSub(millis, o.lastSuccessfulSync) > o.syncIntervalMs
    THEN [obj |-> forceSyncNow(o), rtc |-> rtc]
    ELSE [obj |-> o, rtc |-> rtc]

\* NTPSync::handleNTPSync: [obj, rtc]
handleNTPSync(o, httpOk, gotTime) ==
    IF ~wifi.connected
    THEN [obj |-> IF o.syncInProgress
                  THEN [o EXCEPT !.syncInProgress = FALSE,
                                 !.waitingForNTPResponse = FALSE]
                  ELSE o,
          rtc |-> rtc]
    ELSE IF o.syncInProgress /\ o.waitingForNTPResponse
    THEN [obj |-> checkNTPSyncProgress(o, httpOk, gotTime).obj,
          rtc |-> checkNTPSyncProgress(o, httpOk, gotTime).rtc]
    ELSE IF o.initialSyncPending
            /\ ULongSub(millis, o.wifiConnectedTime) > NTP_INITIAL_SYNC_DELAY
    THEN [obj |-> [forceSyncNow(o) EXCEPT !.initialSyncPending = FALSE],
          rtc |-> rtc]
    ELSE IF o.lastSuccessfulSync > 0
            /\ ULongSub(millis, o.lastSuccessfulSync) > o.syncIntervalMs
    THEN [obj |-> forceSyncNow(o), rtc |-> rtc]
    ELSE [obj |-> o, rtc |-> rtc]

\* the sources tried once forceSyncNow has left the object as after: a cycle
\* that starts has tried the source it starts with
triedAfterStart(after) ==
    IF ~ntp.syncInProgress /\ after.syncInProgress
    THEN << after.currentServerIndex >>
    ELSE tried

\* the sources tried once handleNTPSync has left the object as after: a
\* timeout before the last source tries the next one
triedAfter(after) ==
    IF /\ wifi.connected
       /\ ntp.syncInProgress /\ ntp.waitingForNTPResponse
       /\ ULongSub(millis, ntp.syncStartTime) > NTP_SYNC_TIMEOUT
       /\ ntp.currentServerIndex < TIME_SERVERS_COUNT - 1
    THEN Append(tried, ntp.currentServerIndex + 1)
    ELSE triedAfterStart(after)

nonNtpVars ==
    << advances, motorVars, schedVars, ledVars, feedingInProgress,
       tFeedingMonitorEnabled, tMotorMaintenanceEnabled, wasFeeding,
       benchVars >>

\* one more change of the network or NTP command
MayHappen ==
    /\ events < MaxEvents
    /\ events' = events + 1

\* the radio joins the access point
WifiConnects ==
    /\ MayHappen
    /\ ~wifi.connected
    /\ wifi' = [wifi EXCEPT !.connected = TRUE]
    /\ last' = Quiet
    /\ UNCHANGED << millis, rtc, ntp, due, tried, nonNtpVars >>

\* the radio loses the access point
WifiDrops ==
    /\ MayHappen
    /\ wifi.connected
    /\ wifi' = [wifi EXCEPT !.connected = FALSE]
    /\ last' = Quiet
    /\ UNCHANGED << millis, rtc, ntp, due, tried, nonNtpVars >>

\* Task wifiMonitorTask
WifiMonitorTask ==
    /\ "tWiFiMonitor" \in due
    /\ events' = events
    /\ due' = due \ {"tWiFiMonitor"}
    /\ ntp' = IF wifi.connected /\ ~wifi.wasConnected
              THEN onWiFiConnected(ntp) ELSE ntp
    /\ wifi' = [wifi EXCEPT !.wasConnected = wifi.connected]
    /\ last' = Done("wifiMonitorTask", "void",
                    wifi.connected /\ ~wifi.wasConnected, 0)
    /\ UNCHANGED << millis, rtc, tried, nonNtpVars >>

\* Task ntpSyncTask
NtpSyncTask(httpOk, gotTime) ==
    /\ "tNTPSync" \in due
    /\ due' = due \ {"tNTPSync"}
    /\ events' = events
    /\ (httpOk \/ gotTime) => ntp.successfulSyncs < MaxAnswers
    /\ ntp' = handleNTPSync(ntp, httpOk, gotTime).obj
    /\ rtc' = handleNTPSync(ntp, httpOk, gotTime).rtc
    /\ tried' = triedAfter(handleNTPSync(ntp, httpOk, gotTime).obj)
    /\ last' = Done("ntpSyncTask", "void",
                    handleNTPSync(ntp, httpOk, gotTime).obj # ntp, 0)
    /\ UNCHANGED << millis, wifi, nonNtpVars >>

\* NTPSync::setSyncInterval
setSyncInterval(o, intervalMs) == [o EXCEPT !.syncIntervalMs = intervalMs]

\* serial command "NTP SYNC"
CmdNtpSync ==
    /\ MayHappen
    /\ ntp' = forceSyncNow(ntp)
    /\ tried' = triedAfterStart(forceSyncNow(ntp))
    /\ last' = Done("forceSyncNow",
                    IF forceSyncNow(ntp) # ntp THEN "true" ELSE "false",
                    forceSyncNow(ntp) # ntp, 0)
    /\ UNCHANGED << millis, rtc, wifi, due, nonNtpVars >>

\* serial command "NTP INTERVAL minutes"
CmdNtpInterval(minutes) ==
    /\ MayHappen
    /\ ntp' = IF minutes > 0 THEN setSyncInterval(ntp, minutes * 60000) ELSE ntp
    /\ last' = Done("setSyncInterval", "void", minutes > 0, minutes)
    /\ UNCHANGED << millis, rtc, wifi, due, tried, nonNtpVars >>

\* serial command "NTP FALLBACK"
CmdNtpFallback(httpOk) ==
    /\ MayHappen
    /\ rtc' = tryHTTPTimeFallback(ntp, httpOk).rtc
    /\ last' = Done("tryHTTPTimeFallback",
                    IF tryHTTPTimeFallback(ntp, httpOk).ok THEN "true" ELSE "false",
                    tryHTTPTimeFallback(ntp, httpOk).ok, 0)
    /\ UNCHANGED << millis, ntp, wifi, due, tried, nonNtpVars >>

\* a period of tNTPSync ends after both tasks have run
NtpAdvance(d) ==
    /\ millis + d <= NtpMaxMillis
    /\ due = {}
    /\ due' = NetworkTasks
    /\ events' = events
    /\ millis' = millis + d
    /\ rtc' = DtAddSecs(rtc, d \div 1000)
    /\ last' = Quiet
    /\ UNCHANGED << ntp, wifi, tried, nonNtpVars >>

\* what the RTC reads at boot and what the store holds under "last_sync": an
\* unset RTC, an RTC in 2016 an hour after the stored sync, an RTC a second
\* ahead with no stored sync, a right RTC with a stored sync an hour ahead,
\* an hour back and a minute less than the sync interval back
NtpScenarios ==
    { [now |-> NoValue, stored |-> 0],
      [now |-> DT(6000, HMS(12, 0, 0)),
       stored |-> unixtime(DT(6000, HMS(11, 0, 0)))],
      [now |-> DT(BootDay, HMS(12, 0, 1)), stored |-> 0],
      [now |-> DT(BootDay, HMS(12, 0, 0)),
       stored |-> unixtime(DT(BootDay, HMS(13, 0, 0)))],
      [now |-> DT(BootDay, HMS(12, 0, 0)),
       stored |-> unixtime(DT(BootDay, HMS(11, 0, 0)))],
      [now |-> DT(BootDay, HMS(12, 0, 0)),
       stored |-> unixtime(DT(BootDay, HMS(0, 1, 0)))] }

NtpInit ==
    \E sc \in NtpScenarios :
        Boot(sc.now, NoValue, NoSchedules, TRUE) /\ BootNtp(sc.stored)

NtpNext ==
    \/ \E d \in NtpJumps : NtpAdvance(d)
    \/ WifiConnects
    \/ WifiDrops
    \/ WifiMonitorTask
    \/ \E httpOk \in BOOLEAN, gotTime \in BOOLEAN : NtpSyncTask(httpOk, gotTime)
    \/ CmdNtpSync
    \/ \E m \in IntervalInputs : CmdNtpInterval(m)
    \/ \E httpOk \in BOOLEAN : CmdNtpFallback(httpOk)

NtpSpec == NtpInit /\ [][NtpNext]_vars

\* the scheduler runs both tasks again and again, and time passes
NtpLiveSpec ==
    /\ NtpSpec
    /\ WF_vars(WifiMonitorTask)
    /\ WF_vars(\E httpOk \in BOOLEAN, gotTime \in BOOLEAN : NtpSyncTask(httpOk, gotTime))
    /\ WF_vars(\E d \in NtpJumps : NtpAdvance(d))

\* ------------------------------------------------------------------------
\* C1: at most one feeding is in flight: no source commands a new actuator
\* move (a changed target) while the previous move is outstanding
\* (distance to go # 0).
C1_OneFeedingInFlight ==
    [][stepperTarget' # stepperTarget => distanceToGo = 0]_vars

\* C2: whenever the actuator has an outstanding asynchronous move, the shared
\* feedingInProgress flag is true.
C2_BusyImpliesFlag == isRunning => feedingInProgress

\* the portions values that reach startFeeding in the model
StartInputs == {(IF n <= 0 THEN 1 ELSE n) % UINT8_MOD : n \in FeedInputs}
                  \cup {touchLongPressPortions}

\* C3: startFeeding returns false and leaves feedingInProgress, the poll
\* task's enabled state, the actuator target and lastCompletedFeeding
\* unchanged when portions is out of range, a feeding is in progress or the
\* controller is not ready.
C3_RejectedStartChangesNothing ==
    [][\A p \in StartInputs :
         (/\ startFeeding(p, TRUE)
          /\ \/ p < MIN_FOOD_PORTIONS
             \/ p > MAX_FOOD_PORTIONS
             \/ feedingInProgress
             \/ ~(fcInitialized /\ motorInitialized))
         => /\ last'.ret = "false"
            /\ UNCHANGED << feedingInProgress, tFeedingMonitorEnabled,
                            stepperTarget, lastCompletedFeeding >>]_vars

C3_Witness ==
    /\ last.op = "startFeeding"
    /\ last.ret = "false"
    /\ feedingInProgress
    /\ fcIsReady

C5_CancelStopsActuator ==
    (last.op = "cancelFeeding" /\ last.ret = "true")
        => (~feedingInProgress /\ ~tFeedingMonitorEnabled /\ distanceToGo = 0)

LatestPulseStart == CHOOSE t \in pulseStarts : \A u \in pulseStarts : u <= t

C7_StatusFollowsFlag ==
    [][RgbLedMaintenanceTask =>
         /\ currentLEDState' # LED_STATE_CANCEL_FLASH =>
              /\ feedingInProgress => currentLEDState' = LED_STATE_FEEDING
              /\ ~feedingInProgress => currentLEDState' = LED_STATE_READY
         /\ last'.applied <=> (currentLEDState' # currentLEDState)]_vars

C7_Witness ==
    /\ last.op = "rgbLedMaintenanceTask"
    /\ last.applied
    /\ currentLEDState = LED_STATE_FEEDING
    /\ feedingInProgress

\* C8: a scheduled dispatch is refused while the shared flag is true, and an
\* accepted one sets the shared flag and enables the poll task.
C8_DispatchThroughArbiter ==
    [][(ScheduleMonitorTask /\ last'.n > 0) =>
         IF feedingInProgress
         THEN stepperTarget' = stepperTarget
         ELSE (stepperTarget' # stepperTarget
                 => (feedingInProgress' /\ tFeedingMonitorEnabled'))]_vars

\* C9: a dispatch performed when the clock reads T leaves
\* lastCompletedFeeding = T in memory and in the store.
C9_DispatchRecordsNow ==
    [][(ScheduleMonitorTask /\ last'.n > 0) =>
         (lastCompletedFeeding' = rtc /\ nvLastFeeding' = rtc)]_vars

\* C10: lastCompletedFeeding never decreases (the clock of the model never
\* goes back).
C10_LastFeedingMonotonic ==
    [][~DtLess(lastCompletedFeeding', lastCompletedFeeding)]_vars

\* C11: the flag that gates the schedule engine is cleared once the move of
\* a scheduled feeding has completed: under fair ticking of the motor and
\* poll tasks, a state where processSchedules skips because a feeding is in
\* progress is followed by a state where it no longer does.
C11_EngineGateClears ==
    schedFeedingInProgress ~> ~schedFeedingInProgress

\* whether entry i (0-based) of the table is enabled and its instant on the
\* day of now lies within 60 s of now
DueNow(i, now) ==
    /\ schedules[i + 1].enabled
    /\ LET d == DtDiff(now, DT(now.day, HMS(schedules[i + 1].hour,
                                           schedules[i + 1].minute,
                                           schedules[i + 1].second)))
       IN d >= -60 /\ d <= 60

\* C12: on a processing tick with the engine enabled and no feeding in
\* progress, the on-time path dispatches a feeding if and only if some
\* enabled entry's instant today is within 60 s of now.
C12_OnTimeIffDue ==
    [][(ScheduleMonitorTask /\ ~processSkips) =>
         ((onTimeDispatch(rtc) # << >>)
            <=> (\E i \in 0 .. scheduleCount - 1 : DueNow(i, rtc)))]_vars

\* C13: one call of processSchedules dispatches at most one feeding, the
\* recovery path and the on-time path counted together.
C13_OneDispatchPerCall ==
    [][ScheduleMonitorTask => last'.n <= 1]_vars

\* the occurrences the recovery rule names at the time now: an enabled
\* entry's instant strictly after lastFeeding and strictly before now, not
\* older than maxRecoveryHours, its age in whole minutes in
\* (1, toleranceMinutes]
EligibleOccurrences(now, lastFeeding) ==
    { o \in { [index |-> i,
               time |-> DT(d, HMS(schedules[i + 1].hour, schedules[i + 1].minute,
                                  schedules[i + 1].second))] :
                 i \in 0 .. scheduleCount - 1,
                 d \in now.day - (MAX_TOLERANCE_MINUTES \div 1440 + 1) .. now.day } :
        /\ schedules[o.index + 1].enabled
        /\ DtLess(lastFeeding, o.time)
        /\ DtLess(o.time, now)
        /\ DtDiff(now, o.time) <= maxRecoveryHours * 3600
        /\ DtDiff(now, o.time) \div 60 > 1
        /\ DtDiff(now, o.time) \div 60 <= toleranceMinutes }

\* C14: one call of recoverMissedFeedings dispatches at most one recovered
\* feeding, however many missed occurrences are eligible.
C14_OneRecoveryPerCall ==
    [][(ScheduleMonitorTask /\ ~processSkips) =>
         Len(recoverMissedFeedings(schedules, rtc, lastCompletedFeeding,
                                   toleranceMinutes, maxRecoveryHours)) <= 1]_vars

\* a tick has recovered one feeding and two occurrences are eligible
C14_Witness ==
    /\ last.op = "scheduleMonitorTask"
    /\ last.ret = "recovered"
    /\ last.n = 1
    /\ Cardinality(EligibleOccurrences(rtc, lastCompletedFeeding)) >= 2

\* C15: the recovery path dispatches a feeding only for an occurrence that
\* is strictly after lastCompletedFeeding, strictly before now, not older
\* than maxRecoveryHours, and whose age in whole minutes is greater than 1
\* and at most toleranceMinutes.
C15_RecoveryOnlyEligible ==
    [][(ScheduleMonitorTask /\ ~processSkips) =>
         LET rec == recoverMissedFeedings(schedules, rtc, lastCompletedFeeding,
                                          toleranceMinutes, maxRecoveryHours)
         IN \A k \in 1 .. Len(rec) :
               rec[k] \in EligibleOccurrences(rtc, lastCompletedFeeding)]_vars

\* C16: on a processing tick with the engine enabled and idle, if some
\* enabled entry has an occurrence strictly after lastCompletedFeeding and
\* strictly before now, within maxRecoveryHours, whose age in minutes is in
\* (1, toleranceMinutes], then recovery dispatches a feeding on that tick,
\* also when the occurrence falls on another calendar day than the scan start.
C16_RecoveryComplete ==
    [][(ScheduleMonitorTask /\ ~processSkips
          /\ EligibleOccurrences(rtc, lastCompletedFeeding) # {}) =>
         recoverMissedFeedings(schedules, rtc, lastCompletedFeeding,
                               toleranceMinutes, maxRecoveryHours) # << >>]_vars

\* C17: no scheduled occurrence (entry, calendar day) is dispatched more
\* than once: a processing tick never dispatches for an occurrence that the
\* on-time path or the recovery path has already dispatched for, whether or
\* not the actuator accepted that dispatch.
C17_OccurrenceDispatchedOnce ==
    [][(ScheduleMonitorTask /\ ~processSkips) =>
         LET r == processSchedules(rtc)
             d == r.rec \o r.onTime
         IN \A k \in 1 .. Len(d) :
               /\ d[k] \notin dispatched
               /\ \A j \in 1 .. Len(d) : j # k => d[j] # d[k]]_vars

\* the next instant of entry i strictly after now: today's instant if it is
\* after now, else tomorrow's
NextInstant(i, now) ==
    LET today == DT(now.day, HMS(schedules[i + 1].hour, schedules[i + 1].minute,
                                 schedules[i + 1].second))
    IN IF DtLess(now, today) THEN today ELSE DT(now.day + 1, today.sod)

\* the cached next occurrence names an enabled entry whose next instant is
\* minimal among the enabled entries, and calculateNextFeeding and
\* updateNextScheduledTime give the same time
NextOccurrenceCorrect ==
    /\ calculateNextFeeding(schedules, rtc).time
          = updateNextScheduledTime(schedules, rtc)
    /\ (\E i \in 0 .. scheduleCount - 1 : schedules[i + 1].enabled) =>
          /\ nextScheduleIndex < scheduleCount
          /\ schedules[nextScheduleIndex + 1].enabled
          /\ nextScheduledTime = NextInstant(nextScheduleIndex, rtc)
          /\ \A j \in 0 .. scheduleCount - 1 :
                schedules[j + 1].enabled =>
                   ~DtLess(NextInstant(j, rtc), nextScheduledTime)

\* a step that changes the table or its enable flags
ScheduleMutation ==
    \/ \E e \in ScheduleInputs : ApiScheduleAdd(e[1], e[2], e[3], e[4])
    \/ \E i \in IndexInputs, e \in ScheduleInputs :
          ApiScheduleEdit(i, e[1], e[2], e[3], e[4])
    \/ \E i \in IndexInputs : ApiScheduleDelete(i)
    \/ \E i \in IndexInputs, b \in BOOLEAN : CmdScheduleEnableAt(i, b)
    \/ \E b \in BOOLEAN : CmdScheduleEnable(b)

\* C18: after every mutation (add, edit, remove, enable/disable of an index
\* or of the whole table) and after every dispatch, the cached next
\* occurrence (time and index) is the enabled entry whose next instant
\* strictly after now is minimal, and both recomputation routines agree on
\* the value, also when no entry is enabled.
C18_NextOccurrenceAfterChange ==
    [][(ScheduleMutation \/ (ScheduleMonitorTask /\ last'.op = "scheduleMonitorTask"))
         => NextOccurrenceCorrect']_vars

\* the fields of a request that the validation rule names as out of range
FieldsOutOfRange(hour, minute, second, portions) ==
    \/ hour > 23
    \/ minute > 59
    \/ second > 59
    \/ portions < MIN_FOOD_PORTIONS
    \/ portions > MAX_FOOD_PORTIONS

\* the request is refused and nothing of the schedule changes
RefusedUnchanged(op) ==
    /\ last' = Done(op, "false", FALSE, 0)
    /\ UNCHANGED << schedules, nvSchedules, nextScheduledTime, nextScheduleIndex >>

\* C19: add and edit return false and leave the table, the entry count, the
\* persisted records and the cached next occurrence unchanged whenever
\* hour > 23, minute > 59, second > 59, portions is out of range, the index
\* is not below the entry count (edit), or the table already holds 10
\* entries (add).
C19_InvalidRequestRefused ==
    [][/\ \A e \in ScheduleInputs :
             (/\ ApiScheduleAdd(e[1], e[2], e[3], e[4])
              /\ \/ FieldsOutOfRange(e[1] % UINT8_MOD, e[2] % UINT8_MOD,
                                     e[3] % UINT8_MOD, e[4] % UINT8_MOD)
                 \/ scheduleCount >= MAX_SCHEDULED_FEEDINGS)
                => RefusedUnchanged("addSchedule")
       /\ \A i \in IndexInputs, e \in ScheduleInputs :
             (/\ ApiScheduleEdit(i, e[1], e[2], e[3], e[4])
              /\ \/ FieldsOutOfRange(e[1] % UINT8_MOD, e[2] % UINT8_MOD,
                                     e[3] % UINT8_MOD, e[4] % UINT8_MOD)
                 \/ i % UINT8_MOD >= scheduleCount)
                => RefusedUnchanged("editSchedule")]_vars

\* an add request has been refused on a table that holds 10 entries
C19_Witness ==
    /\ last = Done("addSchedule", "false", FALSE, 0)
    /\ scheduleCount = MAX_SCHEDULED_FEEDINGS
    /\ nvSchedules = StoreOf(schedules)

\* C20: add and edit accept a request exactly when hour <= 23,
\* minute <= 59, second <= 59 and portions is in
\* [MIN_FOOD_PORTIONS, MAX_FOOD_PORTIONS], the range startFeeding accepts
\* (for add on a table with room, for edit at an index below the count).
C20_AcceptsExactlyValid ==
    [][/\ \A e \in ScheduleInputs :
             (/\ ApiScheduleAdd(e[1], e[2], e[3], e[4])
              /\ scheduleCount < MAX_SCHEDULED_FEEDINGS)
                => (last'.ret = "true"
                      <=> ~FieldsOutOfRange(e[1] % UINT8_MOD, e[2] % UINT8_MOD,
                                            e[3] % UINT8_MOD, e[4] % UINT8_MOD))
       /\ \A i \in IndexInputs, e \in ScheduleInputs :
             (/\ ApiScheduleEdit(i, e[1], e[2], e[3], e[4])
              /\ i % UINT8_MOD < scheduleCount)
                => (last'.ret = "true"
                      <=> ~FieldsOutOfRange(e[1] % UINT8_MOD, e[2] % UINT8_MOD,
                                            e[3] % UINT8_MOD, e[4] % UINT8_MOD))]_vars

C22_TableAtMostTen ==
    scheduleCount <= MAX_SCHEDULED_FEEDINGS

\* setSchedules has been called with a count of 11 and the table holds 10
C22_Witness ==
    /\ last.op = "setSchedules"
    /\ scheduleCount = MAX_SCHEDULED_FEEDINGS
    /\ schedules = FullTable

\* the persisted count and the persisted records 0 .. count-1 are the
\* in-memory table, and a boot load of the store gives that table
PersistedIsTable ==
    /\ nvSchedules.count = scheduleCount
    /\ SubSeq(nvSchedules.recs, 1, scheduleCount) = schedules
    /\ loadSchedulesFromNVRAM(nvSchedules).table = schedules

C24_SaveLoadRoundTrip ==
    \A st \in StoreScenarios \cup {nvSchedules} :
       loadSchedulesFromNVRAM(putSchedules(st, schedules)).table = schedules

\* the device has rebooted over a persisted empty table and holds no entry
C24_Witness ==
    /\ last = Done("setup", "void", FALSE, 1)
    /\ nvSchedules.count = 0
    /\ schedules = << >>

\* C25: disabling or enabling the whole table persists the flag: after a
\* reboot the engine is enabled exactly if it was enabled before, so a
\* disabled engine stays disabled until it is enabled again.
C25_EnableFlagSurvivesReboot ==
    [][Reboot => scheduleEnabled' = scheduleEnabled]_vars

C27_RemoveShiftsDown ==
    [][\A i \in IndexInputs :
          ApiScheduleDelete(i) =>
             IF i % UINT8_MOD < scheduleCount
             THEN /\ Len(schedules') = scheduleCount - 1
                  /\ \A j \in 0 .. scheduleCount - 1 :
                        /\ j < i => schedules'[j + 1] = schedules[j + 1]
                        /\ j > i => schedules'[j] = schedules[j + 1]
             ELSE UNCHANGED << schedules, nvSchedules, nextScheduledTime,
                               nextScheduleIndex >>]_vars

\* entry 0 of a table of two has been removed and the disabled entry 1 is
\* now entry 0
C27_Witness ==
    /\ last = Done("removeSchedule", "true", FALSE, 0)
    /\ schedules = << Entry(12, 0, 1, FALSE) >>

\* the RTC reads a time before 2000 or no date at all
clockInvalid == rtc.day < 0

\* the seconds from the persisted last sync to the RTC's reading
sinceLastSync == unixtime(rtc) - ntp.lastSyncTimestampNVRAM

\* C28: shouldSync() is true exactly when the clock is invalid, or its year is
\* below 2020, or no last-sync timestamp is persisted, or the clock is earlier
\* than the persisted timestamp, or the seconds since the persisted sync are at
\* least the configured interval; a clock in 2016 gives true whatever is
\* persisted.
C28_ShouldSyncExactly ==
    /\ shouldSyncNTP(rtc, ntp.lastSyncTimestampNVRAM, ntp.syncIntervalMs)
          <=> \/ clockInvalid
              \/ year(rtc) < 2020
              \/ ntp.lastSyncTimestampNVRAM = 0
              \/ sinceLastSync < 0
              \/ sinceLastSync >= ntp.syncIntervalMs \div 1000
    /\ year(rtc) = 2016
          => shouldSyncNTP(rtc, ntp.lastSyncTimestampNVRAM, ntp.syncIntervalMs)

\* the clock is in 2016 less than an interval after a persisted sync, and the
\* network's arrival has scheduled the initial sync
C28_Witness ==
    /\ year(rtc) = 2016
    /\ ntp.lastSyncTimestampNVRAM # 0
    /\ sinceLastSync >= 0
    /\ sinceLastSync < ntp.syncIntervalMs \div 1000
    /\ ntp.initialSyncPending

\* the engine is idle: no sync cycle is in progress
engineIdle == ~ntp.syncInProgress

\* the network has arrived early enough for the tasks to run twice more
\* before the uptime stops being followed: once to see the network and once,
\* NTP_INITIAL_SYNC_DELAY later, to start the cycle
inTime == millis + 2 * NTP_TASK_INTERVAL <= NtpMaxMillis

\* C29: whenever the engine is idle, the network is available and shouldSync()
\* is true, a new sync cycle eventually starts unless the network goes away
\* or shouldSync() ceases to hold; also after a cycle that ended Failed, and
\* when shouldSync() becomes true with the network already connected.
C29_IdleAndDueLeadsToCycle ==
    (/\ engineIdle
     /\ wifi.connected
     /\ shouldSyncNTP(rtc, ntp.lastSyncTimestampNVRAM, ntp.syncIntervalMs)
     /\ inTime)
       ~> (\/ ntp.syncInProgress
           \/ ~wifi.connected
           \/ ~shouldSyncNTP(rtc, ntp.lastSyncTimestampNVRAM, ntp.syncIntervalMs))

\* the cycle of this session ended Failed, the network is still there and
\* seen, shouldSync() holds, and nothing is left that would start a cycle
afterFailedCycle ==
    /\ engineIdle
    /\ ntp.failedSyncs > 0
    /\ ntp.lastSuccessfulSync = 0
    /\ ~ntp.initialSyncPending
    /\ wifi.connected /\ wifi.wasConnected
    /\ shouldSyncNTP(rtc, ntp.lastSyncTimestampNVRAM, ntp.syncIntervalMs)

\* shouldSync() holds with the network long connected and no sync in this
\* session
dueWhileConnected ==
    /\ engineIdle
    /\ ntp.syncAttempts = 0
    /\ ntp.lastSuccessfulSync = 0
    /\ ~ntp.initialSyncPending
    /\ wifi.connected /\ wifi.wasConnected
    /\ shouldSyncNTP(rtc, ntp.lastSyncTimestampNVRAM, ntp.syncIntervalMs)

\* from either state the tasks and the passing of time start no cycle
NoWayOut ==
    [][(afterFailedCycle \/ dueWhileConnected) /\ events' = events
          => ~ntp'.syncInProgress]_vars

\* the sources tried so far are 0, 1, 2, ... in this order
triedInOrder(t) == \A i \in 1 .. Len(t) : t[i] = i - 1

\* C30: every sync cycle tries the sources in strictly increasing list order
\* from the primary source (index 0), a timeout on source i moving on to
\* source i+1 and no source being tried twice, and a cycle ends Failed only
\* after the last source has timed out, with the failure counter one higher
\* and currentServerIndex back at 0; also in a cycle that follows one aborted
\* by the loss of the network.
C30_SourcesInOrder ==
    [][/\ triedInOrder(tried')
       /\ ntp'.syncInProgress => ntp'.currentServerIndex = Len(tried') - 1
       /\ ntp'.failedSyncs # ntp.failedSyncs
             => /\ ntp'.failedSyncs = ntp.failedSyncs + 1
                /\ Len(tried) = TIME_SERVERS_COUNT
                /\ ULongSub(millis, ntp.syncStartTime) > NTP_SYNC_TIMEOUT
                /\ ~ntp'.syncInProgress
                /\ ntp'.currentServerIndex = 0]_vars

\* the uptime left is enough for every source from the current one on to
\* time out
cycleInTime ==
    millis + (TIME_SERVERS_COUNT - ntp.currentServerIndex) * NTP_TASK_INTERVAL
       <= NtpMaxMillis

\* C31: every started sync cycle terminates: with the sync task running again
\* and again, syncInProgress eventually becomes false (by success, by Failed
\* after the last source, or by abort when the network is gone), and within a
\* cycle no source is tried more than once.
C31_CycleTerminates ==
    /\ (ntp.syncInProgress /\ cycleInTime) ~> ~ntp.syncInProgress
    /\ [](\A i, j \in 1 .. Len(tried) : tried[i] = tried[j] => i = j)
    /\ [](Len(tried) <= TIME_SERVERS_COUNT)

\* a cycle has ended Failed after its last source timed out, and another has
\* ended by abort
C31_Witness ==
    /\ ~ntp.syncInProgress
    /\ ntp.failedSyncs = 1
    /\ Len(tried) = TIME_SERVERS_COUNT
    /\ ~wifi.connected

secondsApart(a, b) ==
    IF unixtime(a) >= unixtime(b) THEN unixtime(a) - unixtime(b)
    ELSE unixtime(b) - unixtime(a)

\* C33: a successful sync rewrites the clock only when the fetched time
\* differs from the clock by more than 2 seconds; with a difference of at most
\* 2 seconds the clock is left untouched, for NTP and for HTTP sources alike.
C33_ClockRewrittenOnlyIfOff ==
    [][ntp'.successfulSyncs # ntp.successfulSyncs /\ rtc' # rtc
          => secondsApart(rtc', rtc) > 2]_vars

\* C34: whenever a sync cycle ends, by success, by all sources failing or by
\* abort because the network dropped, the radio's power-save setting (WiFi
\* sleep) is what it was before that cycle started.
C34_SleepRestored ==
    [][ntp.syncInProgress /\ ~ntp'.syncInProgress
          => ntp'.wifiSleep = ntp.previousWiFiSleepState]_vars

\* the cycles that are in progress: 1 or 0
cyclesInProgress == IF ntp.syncInProgress THEN 1 ELSE 0

\* C36: in every state attempts = successes + failures + (1 if a cycle is in
\* progress, else 0), and forceSyncNow() called while a cycle is in progress
\* or without network returns false and changes no counter.
C36_CountersAddUp ==
    /\ [](ntp.syncAttempts
             = ntp.successfulSyncs + ntp.failedSyncs + cyclesInProgress)
    /\ [][last'.op = "forceSyncNow" /\ (ntp.syncInProgress \/ ~wifi.connected)
             => /\ last'.ret = "false"
                /\ ntp'.syncAttempts = ntp.syncAttempts
                /\ ntp'.successfulSyncs = ntp.successfulSyncs
                /\ ntp'.failedSyncs = ntp.failedSyncs]_vars

\* the engine is waiting for an answer of the NTP client
waitingOnNtpEntry ==
    /\ ntp.syncInProgress /\ ntp.waitingForNTPResponse
    /\ TIME_SERVERS[ntp.currentServerIndex + 1] = "ntp"

\* C37: whenever the engine waits for a response on an NTP entry, the server
\* the NTP client was last configured with is TIME_SERVERS[currentServerIndex];
\* a cycle after a success from a fallback source polls the primary source.
C37_ClientConfiguredForCurrent ==
    waitingOnNtpEntry => ntp.sntpServer = ntp.currentServerIndex

\* ------------------------------------------------------------------------
\* The time-sync engine across a loss of the network: one device with an
\* unset clock and nothing stored, followed for ReconnectEvents changes of
\* the network and NTP SYNC commands
\* ------------------------------------------------------------------------
ReconnectEvents == 5

ReconnectInit ==
    /\ Boot(NoValue, NoValue, NoSchedules, TRUE)
    /\ ntp = NTPSyncObject(0)
    /\ wifi = [connected |-> FALSE, wasConnected |-> FALSE]
    /\ events = MaxEvents - ReconnectEvents
    /\ due = NetworkTasks
    /\ tried = << >>
    /\ http = NoAnswer
    /\ avr = AvrOff

ReconnectNext ==
    \/ \E d \in NtpJumps : NtpAdvance(d)
    \/ WifiConnects
    \/ WifiDrops
    \/ WifiMonitorTask
    \/ \E httpOk \in BOOLEAN, gotTime \in BOOLEAN : NtpSyncTask(httpOk, gotTime)
    \/ CmdNtpSync

ReconnectSpec == ReconnectInit /\ [][ReconnectNext]_vars

\* the entries of the table before and after a step differ at position i at
\* most, and entry i keeps its enabled flag
onlyEntryEdited(i) ==
    /\ schedules'[i].enabled = schedules[i].enabled
    /\ \A j \in 1..Len(schedules) : j # i => schedules'[j] = schedules[j]

\* C38: a successful editSchedule(i, ...) changes only hour, minute, second,
\* portions and description of entry i: the enabled flag of entry i, every
\* other entry, the number of entries and their order stay as they were.
C38_EditKeepsTheRest ==
    [][last'.op = "editSchedule" /\ last'.ret = "true"
          => /\ Len(schedules') = Len(schedules)
             /\ \E i \in 1..Len(schedules) : onlyEntryEdited(i)]_vars

\* an edit has rewritten the time of a disabled entry
C38_Witness ==
    /\ last.op = "editSchedule" /\ last.ret = "true"
    /\ \E i \in 1..Len(schedules) :
          /\ ~schedules[i].enabled
          /\ schedules[i].minute = 20
          /\ schedules[i].description = EmptyText

\* C39: while the whole-table enable flag is false, processSchedules
\* dispatches nothing, neither on time nor as a recovery, and leaves
\* lastCompletedFeeding, feedingInProgress and the actuator unchanged.
C39_DisabledDispatchesNothing ==
    [][~scheduleEnabled /\ ScheduleMonitorTask
          => /\ dispatched' = dispatched
             /\ UNCHANGED << lastCompletedFeeding, nvLastFeeding,
                             schedFeedingInProgress, feedingInProgress,
                             stepperTarget, stepperPos >>]_vars

\* the table is disabled while an occurrence is due on time and another is
\* to be recovered, and no step has dispatched them
C39_Witness ==
    /\ ~scheduleEnabled /\ scheduleCount > 0 /\ ~schedFeedingInProgress
    /\ processSchedules(rtc).rec # << >>
    /\ processSchedules(rtc).onTime # << >>
    /\ last = Quiet
    /\ dispatched = {}

\* ------------------------------------------------------------------------
\* The HTTP time sources: what a server answers, the datetime the firmware
\* parses from the answer and the time it writes to the RTC. An answer is
\* held as the JSON field that carries the time and the characters of its
\* value; a server that does not answer in time, or answers with an error
\* body, gives no field.
\* ------------------------------------------------------------------------
GMT_OFFSET_SEC == -3 * 3600

Digits == << "0", "1", "2", "3", "4", "5", "6", "7", "8", "9" >>

isDigit(c) == \E n \in 1..10 : Digits[n] = c

digitValue(c) == (CHOOSE n \in 1..10 : Digits[n] = c) - 1

\* String::substring(left, right): the characters left .. right-1, right cut
\* to the length
substring(s, left, right) ==
    SubSeq(s, left + 1, IF right > Len(s) THEN Len(s) ELSE right)

\* atol over digits: the number the leading digits spell, 0 without any
RECURSIVE leadingDigits(_, _)
leadingDigits(s, acc) ==
    IF s = << >> THEN acc
    ELSE IF ~isDigit(Head(s)) THEN acc
    ELSE leadingDigits(Tail(s), acc * 10 + digitValue(Head(s)))

\* String::toInt
toInt(s) ==
    IF s # << >> /\ Head(s) = "-" THEN -leadingDigits(Tail(s), 0)
    ELSE leadingDigits(s, 0)

\* RTClib daysInMonth, January to November
daysInMonth == << 31, 28, 31, 30, 31, 30, 31, 31, 30, 31, 30 >>

\* the days of the months before month m of a common year
RECURSIVE daysBeforeMonth(_)
daysBeforeMonth(m) ==
    IF m <= 1 THEN 0 ELSE daysInMonth[m - 1] + daysBeforeMonth(m - 1)

\* RTClib date2days: days since 2000-01-01 of a date in 2000 .. 2099
date2days(y, m, d) ==
    LET yOff == IF y >= 2000 THEN y - 2000 ELSE y
    IN d + daysBeforeMonth(m)
         + (IF m > 2 /\ yOff % 4 = 0 THEN 1 ELSE 0)
         + 365 * yOff + (yOff + 3) \div 4 - 1

\* DateTime(year, month, day, hour, minute, second)
DateTimeOf(y, m, d, hh, mm, ss) ==
    IF m = 0 \/ d = 0 THEN NoValue
    ELSE DT(date2days(y, m, d), HMS(hh, mm, ss))

\* a 32-bit unsigned long is held as its two 16-bit halves
ULONG_HALF == 65536

\* a non-negative number below 2^31 as an unsigned long
asULong(n) == [hi |-> n \div ULONG_HALF, lo |-> n % ULONG_HALF]

\* the conversion of a long to unsigned long: a negative number -n becomes
\* 2^32 - n
longAsULong(n) ==
    IF n >= 0 THEN asULong(n)
    ELSE [hi |-> ULONG_HALF - 1 - ((-n - 1) \div ULONG_HALF),
          lo |-> ULONG_HALF - 1 - ((-n - 1) % ULONG_HALF)]

\* a + b on unsigned long, modulo 2^32
ULongAdd(a, b) ==
    [hi |-> (a.hi + b.hi + (a.lo + b.lo) \div ULONG_HALF) % ULONG_HALF,
     lo |-> (a.lo + b.lo) % ULONG_HALF]

\* DateTime(uint32_t t) of a time from 2000 on: 2^16 s are 512 * 128 s and a
\* day is 675 * 128 s
DateTimeFromUnix(t) ==
    DtAddSecs(DT((t.hi * 512) \div 675
                   - SECONDS_FROM_1970_TO_2000 \div SECONDS_PER_DAY, 0),
              ((t.hi * 512) % 675) * 128 + t.lo)

\* the datetime field of an answer parsed as YYYY-MM-DDTHH:MM:SS
parseIsoSeconds(text) ==
    DateTimeOf(toInt(substring(text, 0, 4)), toInt(substring(text, 5, 7)),
               toInt(substring(text, 8, 10)), toInt(substring(text, 11, 13)),
               toInt(substring(text, 14, 16)), toInt(substring(text, 17, 19)))

\* NTPSync::getTimeFromWorldTimeAPI: [ok, rtc]
getTimeFromWorldTimeAPI(answer) ==
    IF answer.field = "datetime" /\ Len(answer.text) >= 19
    THEN [ok |-> TRUE, rtc |-> parseIsoSeconds(answer.text)]
    ELSE [ok |-> FALSE, rtc |-> rtc]

\* NTPSync::getTimeFromTimeAPI over parseTimeAPIResponse: [ok, rtc]
getTimeFromTimeAPI(answer) ==
    IF answer.field = "dateTime" /\ Len(answer.text) >= 19
    THEN [ok |-> TRUE, rtc |-> parseIsoSeconds(answer.text)]
    ELSE [ok |-> FALSE, rtc |-> rtc]

\* getTimeFromWorldClockAPI writing the UTC time it parsed
getTimeFromWorldClockAPI_NoOffset(answer) ==
    IF answer.field = "currentDateTime" /\ Len(answer.text) >= 16
    THEN LET utcTime == DateTimeOf(toInt(substring(answer.text, 0, 4)),
                                   toInt(substring(answer.text, 5, 7)),
                                   toInt(substring(answer.text, 8, 10)),
                                   toInt(substring(answer.text, 11, 13)),
                                   toInt(substring(answer.text, 14, 16)), 0)
         IN [ok |-> TRUE, rtc |-> utcTime]
    ELSE [ok |-> FALSE, rtc |-> rtc]

\* NTPSync::getTimeFromWorldClockAPI: [ok, rtc]
getTimeFromWorldClockAPI(answer) ==
    IF answer.field = "currentDateTime" /\ Len(answer.text) >= 16
    THEN LET utcTime == DateTimeOf(toInt(substring(answer.text, 0, 4)),
                                   toInt(substring(answer.text, 5, 7)),
                                   toInt(substring(answer.text, 8, 10)),
                                   toInt(substring(answer.text, 11, 13)),
                                   toInt(substring(answer.text, 14, 16)), 0)
             utcTimestamp == asULong(unixtime(utcTime))
             localTimestamp == ULongAdd(utcTimestamp, longAsULong(GMT_OFFSET_SEC))
         IN [ok |-> TRUE, rtc |-> DateTimeFromUnix(localTimestamp)]
    ELSE [ok |-> FALSE, rtc |-> rtc]

\* the servers asked: the two HTTP entries of TIME_SERVERS, a timeapi.io
\* entry and an entry of no known API
HttpServers ==
    { "worldtimeapi.org/api/timezone/America/Sao_Paulo",
      "timeapi.io/api/Time/current/zone",
      "worldclockapi.com/api/json/utc/now",
      "example.org/time" }

\* serverStr.indexOf(host) >= 0
serverContains(serverStr, host) ==
    << serverStr, host >>
        \in { << "worldtimeapi.org/api/timezone/America/Sao_Paulo", "worldtimeapi.org" >>,
              << "timeapi.io/api/Time/current/zone", "timeapi.io" >>,
              << "worldclockapi.com/api/json/utc/now", "worldclockapi.com" >> }

\* NTPSync::tryHTTPTimeFallback for an entry of the given type and server
\* that answers with answer: [ok, rtc]
tryHTTPTimeFallbackOn(type, serverStr, answer) ==
    IF type # "http" THEN [ok |-> FALSE, rtc |-> rtc]
    ELSE IF serverContains(serverStr, "worldtimeapi.org")
    THEN getTimeFromWorldTimeAPI(answer)
    ELSE IF serverContains(serverStr, "timeapi.io")
    THEN getTimeFromTimeAPI(answer)
    ELSE IF serverContains(serverStr, "worldclockapi.com")
    THEN getTimeFromWorldClockAPI(answer)
    ELSE [ok |-> FALSE, rtc |-> rtc]

\* what a server formats: a number as two and as four digits
twoDigits(n) == << Digits[((n \div 10) % 10) + 1], Digits[(n % 10) + 1] >>

fourDigits(n) == twoDigits(n \div 100) \o twoDigits(n % 100)

\* YYYY-MM-DDTHH:MM of the time t = [y, mo, d, h, mi, s]
isoMinutes(t) ==
    fourDigits(t.y) \o << "-" >> \o twoDigits(t.mo) \o << "-" >>
        \o twoDigits(t.d) \o << "T" >> \o twoDigits(t.h) \o << ":" >>
        \o twoDigits(t.mi)

\* YYYY-MM-DDTHH:MM:SS
isoSeconds(t) == isoMinutes(t) \o << ":" >> \o twoDigits(t.s)

\* the times the servers answer with: around the turn of a day, of February
\* in a leap year and of a year
HttpTimes ==
    [y : {2024, 2025}, mo : {1, 3, 12}, d : {1, 31},
     h : {0, 2, 3, 23}, mi : {0, 59}, s : {0, 59}]

\* the answer of server when its clock reads t: worldtimeapi.org gives local
\* time with fraction and offset, timeapi.io local time with fraction,
\* worldclockapi.com UTC to the minute; sent is the time the answer means
answerOf(server, t) ==
    IF server = "worldtimeapi.org/api/timezone/America/Sao_Paulo"
    THEN [server |-> server, field |-> "datetime",
          text |-> isoSeconds(t) \o << ".", "1", "2", "3", "4", "5", "6",
                                       "-", "0", "3", ":", "0", "0" >>,
          sent |-> DateTimeOf(t.y, t.mo, t.d, t.h, t.mi, t.s)]
    ELSE IF server = "worldclockapi.com/api/json/utc/now"
    THEN [server |-> server, field |-> "currentDateTime",
          text |-> isoMinutes(t) \o << "Z" >>,
          sent |-> DateTimeOf(t.y, t.mo, t.d, t.h, t.mi, 0)]
    ELSE [server |-> server, field |-> "dateTime",
          text |-> isoSeconds(t) \o << ".", "1", "2", "3", "4", "5", "6", "7" >>,
          sent |-> DateTimeOf(t.y, t.mo, t.d, t.h, t.mi, t.s)]

\* an answer cut after the date and an answer without the field
brokenAnswers(server, t) ==
    { [answerOf(server, t) EXCEPT !.text = SubSeq(@, 1, 10), !.sent = NoValue],
      [server |-> server, field |-> "", text |-> << >>, sent |-> NoValue] }

HttpInputs ==
    UNION { {answerOf(server, t)} \cup brokenAnswers(server, t) :
              server \in HttpServers, t \in HttpTimes }

\* what the RTC reads before the HTTP source is asked
HttpBootTime == DT(BootDay, HMS(12, 0, 0))

HttpInit ==
    /\ Boot(HttpBootTime, NoValue, NoSchedules, TRUE)
    /\ ntp = NTPSyncObject(0)
    /\ wifi = [connected |-> TRUE, wasConnected |-> TRUE]
    /\ events = 0
    /\ due = NetworkTasks
    /\ tried = << >>
    /\ http \in HttpInputs
    /\ avr = AvrOff

\* tryHTTPTimeFallback on an HTTP entry whose server is http.server and
\* answers with http
HttpFallback ==
    /\ last.op = "setup"
    /\ rtc' = tryHTTPTimeFallbackOn("http", http.server, http).rtc
    /\ last' = Done("tryHTTPTimeFallback",
                    IF tryHTTPTimeFallbackOn("http", http.server, http).ok
                    THEN "true" ELSE "false",
                    tryHTTPTimeFallbackOn("http", http.server, http).ok, 0)
    /\ UNCHANGED << millis, ntp, wifi, events, due, tried, nonNtpVars >>

HttpNext == HttpFallback

HttpSpec == HttpInit /\ [][HttpNext]_vars

\* C35: the time written to the Clock from an HTTP source is the parsed
\* datetime unchanged for worldtimeapi.org and timeapi.io, and the parsed UTC
\* datetime plus the configured GMT offset seconds (negative here) for
\* worldclockapi.com; an HTTP entry of unknown format writes nothing and
\* counts as a failed source.
C35_HttpTimeWritten ==
    last.op = "tryHTTPTimeFallback"
        => /\ (last.ret = "true"
                 /\ http.server \in { "worldtimeapi.org/api/timezone/America/Sao_Paulo",
                                      "timeapi.io/api/Time/current/zone" })
                  => rtc = http.sent
           /\ (last.ret = "true"
                 /\ http.server = "worldclockapi.com/api/json/utc/now")
                  => rtc = DtAddSecs(http.sent, GMT_OFFSET_SEC)
           /\ http.server = "example.org/time"
                  => last.ret = "false" /\ rtc = HttpBootTime
           /\ last.ret = "true" <=> (http.sent # NoValue
                                       /\ http.server # "example.org/time")

\* worldclockapi.com has answered with a UTC time in the first three hours
\* of a day, and the RTC was set to the day before
C35_Witness ==
    /\ last.op = "tryHTTPTimeFallback" /\ last.ret = "true"
    /\ http.server = "worldclockapi.com/api/json/utc/now"
    /\ rtc.day = http.sent.day - 1
    /\ rtc.sod = http.sent.sod + SECONDS_PER_DAY + GMT_OFFSET_SEC

\* ------------------------------------------------------------------------
\* The AVR prototype (feed-schedule.c): setup() and the steps of loop(). The
\* record avr holds
\*   pc                where the program is: the handler loop() calls next
\*                     ("button", "interval", "schedule", "delay") or, inside
\*                     a feed, "step" (myStepper.step), "write"
\*                     (eepromWriteU32) and "end"
\*   kind              the feed under way: "manual", "interval", "schedule"
\*   t, boot           the time in ms since the run began, now and at the
\*                     latest reset: millis() is t - boot
\*   reading           the level of buttonPin
\*   eeprom            the four bytes at EEPROM_ADDR_LAST_SCHEDULED_MINUTE
\*   key, wi           the bytes of scheduleMinuteKey and the index of the
\*                     byte eepromWriteU32 writes next
\*   turnsLeft, nowMs  the revolutions still to make, nowMs of
\*                     handleAutoByInterval
\*   resets            the number of resets so far
\*   fed               the minute keys of the scheduled feeds whose
\*                     revolutions were all made, in order
\* ------------------------------------------------------------------------
MaxResets == 2

\* the time in ms up to which the prototype is followed
AvrMaxMs == 100000

FEED_TURNS == 3

feedSchedule == << << 8, 0 >>, << 12, 0 >>, << 18, 0 >> >>

feedScheduleCount == Len(feedSchedule)

feedInterval == 15 * 1000

debounceDelay == 50

HIGH == 1

LOW == 0

\* the time one revolution takes at setSpeed(10): 60 s / 10
MsPerTurn == 60000 \div 10

BYTE_MOD == 256

\* a uint32_t as its four bytes, the lowest first
U32Bytes(v) ==
    << v % BYTE_MOD, (v \div BYTE_MOD) % BYTE_MOD,
       (v \div (BYTE_MOD * BYTE_MOD)) % BYTE_MOD,
       (v \div (BYTE_MOD * BYTE_MOD * BYTE_MOD)) % BYTE_MOD >>

\* eepromReadU32: the value, as its four bytes, the cells hold
eepromReadU32(cells) == << cells[1], cells[2], cells[3], cells[4] >>

\* one pass of the loop of eepromWriteU32: byte i (from 0) of value is written
eepromWriteByte(cells, i, value) == [cells EXCEPT ![i + 1] = value[i + 1]]

\* what the DS3231 reads when the run begins, and at time t of the run
AvrStartTimes == { DT(BootDay, HMS(7, 59, 50)), DT(BootDay, HMS(11, 59, 30)) }

avrNow(a) == DtAddSecs(a.start, a.t \div 1000)

avrMillis(a) == a.t - a.boot

hour(dt) == dt.sod \div 3600

minute(dt) == (dt.sod % 3600) \div 60

\* the RAM after setup() of the prototype
AvrSetup(a) ==
    [a EXCEPT !.pc = "button", !.kind = "", !.boot = a.t,
              !.isFeeding = FALSE, !.lastIntervalFeedMs = -1,
              !.lastButtonState = HIGH, !.lastDebounceTime = 0,
              !.key = U32Bytes(0), !.wi = 0, !.turnsLeft = 0, !.nowMs = 0]

\* the prototype after its first setup(), with the RTC reading start and the
\* EEPROM holding cells
AvrBoot(start, cells) ==
    AvrSetup([pc |-> "off", kind |-> "", start |-> start, t |-> 0, boot |-> 0,
              reading |-> HIGH, isFeeding |-> FALSE, lastIntervalFeedMs |-> -1,
              lastButtonState |-> HIGH, lastDebounceTime |-> 0,
              eeprom |-> cells, key |-> U32Bytes(0), wi |-> 0,
              turnsLeft |-> 0, nowMs |-> 0, resets |-> 0, fed |-> << >>])

\* feedAutoTurns / feedManualOneTurn up to the call of myStepper.step
feedStarts(a, kind, turns, scheduleMinuteKey) ==
    [a EXCEPT !.pc = "step", !.kind = kind, !.isFeeding = TRUE,
              !.turnsLeft = turns, !.key = scheduleMinuteKey]

\* handleButtonManual; after a manual feed the last line runs in AvrFeedEnd
handleButtonManual(a, reading) ==
    LET b == [a EXCEPT !.reading = reading,
                       !.lastDebounceTime =
                           IF reading # a.lastButtonState THEN avrMillis(a) ELSE @]
    IN IF avrMillis(b) - b.lastDebounceTime > debounceDelay
          /\ reading = LOW /\ b.lastButtonState = HIGH /\ ~b.isFeeding
       THEN feedStarts(b, "manual", 1, U32Bytes(0))
       ELSE [b EXCEPT !.lastButtonState = reading, !.pc = "interval"]

\* handleAutoByInterval
handleAutoByInterval(a) ==
    IF a.isFeeding THEN [a EXCEPT !.pc = "schedule"]
    ELSE IF a.lastIntervalFeedMs = -1
            \/ avrMillis(a) - a.lastIntervalFeedMs >= feedInterval
    THEN feedStarts([a EXCEPT !.nowMs = avrMillis(a)], "interval", FEED_TURNS,
                    U32Bytes(0))
    ELSE [a EXCEPT !.pc = "schedule"]

\* handleAutoBySchedule
handleAutoBySchedule(a) ==
    LET now == avrNow(a)
        minuteKey == U32Bytes(unixtime(now) \div 60)
    IN IF a.isFeeding THEN [a EXCEPT !.pc = "delay"]
       ELSE IF eepromReadU32(a.eeprom) = minuteKey THEN [a EXCEPT !.pc = "delay"]
       ELSE IF \E i \in 1..feedScheduleCount :
                  feedSchedule[i][1] = hour(now) /\ feedSchedule[i][2] = minute(now)
       THEN feedStarts(a, "schedule", FEED_TURNS, minuteKey)
       ELSE [a EXCEPT !.pc = "delay"]

\* everything but the prototype
esp32Vars ==
    << millis, rtc, ntp, wifi, events, due, tried, http, last, advances,
       motorVars, schedVars, ledVars, feedingInProgress,
       tFeedingMonitorEnabled, tMotorMaintenanceEnabled, wasFeeding >>

\* loop(): handleButtonManual() with the pin reading reading
AvrButton(reading) ==
    /\ avr.pc = "button"
    /\ avr' = handleButtonManual(avr, reading)
    /\ UNCHANGED esp32Vars

\* loop(): handleAutoByInterval()
AvrInterval ==
    /\ avr.pc = "interval"
    /\ avr' = handleAutoByInterval(avr)
    /\ UNCHANGED esp32Vars

\* loop(): handleAutoBySchedule()
AvrSchedule ==
    /\ avr.pc = "schedule"
    /\ avr' = handleAutoBySchedule(avr)
    /\ UNCHANGED esp32Vars

\* myStepper.step: one more revolution is made; after the last one a
\* scheduled feed goes on to write its key
AvrTurn ==
    /\ avr.pc = "step"
    /\ avr' = [avr EXCEPT
                 !.t = @ + MsPerTurn,
                 !.turnsLeft = @ - 1,
                 !.pc = IF avr.turnsLeft > 1 THEN "step"
                        ELSE IF avr.kind = "schedule" THEN "write" ELSE "end",
                 !.wi = 0,
                 !.fed = IF avr.turnsLeft = 1 /\ avr.kind = "schedule"
                         THEN Append(@, avr.key) ELSE @]
    /\ UNCHANGED esp32Vars

\* eepromWriteU32: one pass of its loop
AvrEepromWrite ==
    /\ avr.pc = "write"
    /\ avr' = [avr EXCEPT !.eeprom = eepromWriteByte(@, avr.wi, avr.key),
                          !.wi = @ + 1,
                          !.pc = IF avr.wi = 3 THEN "end" ELSE "write"]
    /\ UNCHANGED esp32Vars

\* the end of feedAutoTurns / feedManualOneTurn and the rest of the handler
\* that called it
AvrFeedEnd ==
    /\ avr.pc = "end"
    /\ avr' = IF avr.kind = "manual"
              THEN [avr EXCEPT !.isFeeding = FALSE, !.kind = "",
                               !.lastButtonState = avr.reading,
                               !.pc = "interval"]
              ELSE IF avr.kind = "interval"
              THEN [avr EXCEPT !.isFeeding = FALSE, !.kind = "",
                               !.lastIntervalFeedMs = avr.nowMs,
                               !.pc = "schedule"]
              ELSE [avr EXCEPT !.isFeeding = FALSE, !.kind = "",
                               !.pc = "delay"]
    /\ UNCHANGED esp32Vars

\* loop(): delay(10)
AvrDelay ==
    /\ avr.pc = "delay"
    /\ avr.t + 10 <= AvrMaxMs
    /\ avr' = [avr EXCEPT !.t = @ + 10, !.pc = "button"]
    /\ UNCHANGED esp32Vars

\* the device resets: the RAM begins anew, the EEPROM and the RTC go on
AvrReset ==
    /\ avr.pc # "off"
    /\ avr.resets < MaxResets
    /\ avr' = AvrSetup([avr EXCEPT !.resets = @ + 1])
    /\ UNCHANGED esp32Vars

\* the EEPROM at the first boot: erased cells, or the key of 18:00 of the day
\* before
AvrCells ==
    { << 255, 255, 255, 255 >>,
      U32Bytes(unixtime(DT(BootDay - 1, HMS(18, 0, 0))) \div 60) }

AvrInit ==
    /\ Boot(DT(BootDay, HMS(7, 59, 50)), NoValue, NoSchedules, TRUE)
    /\ ntp = NTPSyncObject(0)
    /\ wifi = [connected |-> FALSE, wasConnected |-> FALSE]
    /\ events = 0
    /\ due = NetworkTasks
    /\ tried = << >>
    /\ http = NoAnswer
    /\ \E start \in AvrStartTimes, cells \in AvrCells :
          avr = AvrBoot(start, cells)

AvrNext ==
    \/ \E reading \in {LOW, HIGH} : AvrButton(reading)
    \/ AvrInterval
    \/ AvrSchedule
    \/ AvrTurn
    \/ AvrEepromWrite
    \/ AvrFeedEnd
    \/ AvrDelay
    \/ AvrReset

AvrSpec == AvrInit /\ [][AvrNext]_vars

\* C40: in the AVR prototype a scheduled feed runs at most once per
\* epoch-minute key, also when the device resets at any point inside that
\* minute, and manual and interval feeds never modify the persisted minute key.
C40_OncePerMinuteKey ==
    /\ [](\A i, j \in 1..Len(avr.fed) : avr.fed[i] = avr.fed[j] => i = j)
    /\ [][avr.kind \in {"manual", "interval"} => avr'.eeprom = avr.eeprom]_vars

====
